---- MODULE Spec2Model ----
(***************************************************************************)
(* WESscDRS: the significance evaluation of scDRS group results            *)
(* (bin/stp7_scDRS_result_evaluation.py) and the gene-set curation         *)
(* (munge_gs of bin/scdrs_.py) as state machines.                          *)
(*                                                                         *)
(* Numbers.  Percentages and thresholds are fixed-point integers in units  *)
(* of 1/Scale percent (Scale = 10000); Monte-Carlo p-values are in units   *)
(* of 1e-6; log10 values are in units of 1/Scale.  A missing cell (NaN, or *)
(* an empty text field) is the empty sequence <<>>, a present value v is   *)
(* the one-element sequence <<v>>.                                         *)
(***************************************************************************)
EXTENDS Integers, Sequences, FiniteSets, TLC

VARIABLES
    \* ---- stp7_scDRS_result_evaluation.py
    pc7,               \* position of the script
    a, b,              \* the fitted curve (a_fit, b_fit), <<>> before the fit
    o, t, d,           \* loop indices: tissue, trait, row (1-based)
    db,                \* the group-analysis table of the current pair
    clmn,              \* the five derived columns of the current pair
    final_results,     \* the significant subset of the current tissue
    allinall,          \* the significant subset of all tissues so far
    trait_fdr_tissue,  \* the full table of the pair written last
    written,           \* the files written so far, in order: [file, content]
    err7,              \* the exception that ended the script, "" if none
    rowsRead,          \* rows read so far in this run (bounds the run)
    processed,         \* history: the pairs read so far, in order, each with
                       \* what read_file found and the subset records it gave
    \* ---- munge_gs of scdrs_.py
    pcG,               \* position in munge_gs
    opts,              \* the arguments of the call
    n_min,             \* n_min, clamped at line 369
    files_read,        \* the input files read so far
    df_read,           \* the table as read (df_pval or df_zscore at the check)
    df_pval,           \* the p-value table (after the z-score conversion)
    trait_list,        \* sorted(df_pval.columns)
    ti,                \* index of the next trait of trait_list (1-based)
    dict_gene_weights, \* the rows of the .gs table built so far
    out_file,          \* the .gs file: <<>> until written, then <<rows>>
    errG,              \* the exception that ended munge_gs, None if none
    \* ---- compute_score of scdrs_.py, run by stp6_scDRS.py
    pcS,               \* position in compute_score
    optsS,             \* the arguments of the call
    species,           \* <<H5AD_SPECIES, GS_SPECIES>> after lines 116-118
    loaded,            \* the inputs loaded so far, in order
    dict_gs,           \* the gene sets of the .gs file: [trait, n_gene]
    tj,                \* index of the next trait of dict_gs (1-based)
    scored,            \* the traits handed to score_cell so far, in order
    out_folder,        \* the files written to OUT_FOLDER so far
    errS,              \* the exception that ended compute_score, <<>> if none
    pc6,               \* position of stp6_scDRS.py around its subprocess
    err6,              \* the exception that ended stp6_scDRS.py, "" if none
    env6,              \* what stp6_scDRS.py finds: [n_genes, script]
    out_dir,           \* the files of out_dir that stp6_scDRS.py reads or writes
    log6,              \* the stages stp6_scDRS.py has run, in order
    \* ---- stp5_generate_input_file_for_scDRS.py
    pc5,               \* position in the script
    magma_genes_out,   \* the rows read at line 98, with their mapped symbols
    df_top,            \* the rows of df_top: [gene_symbol, ZSTAT]
    df_genes,          \* the rows of df_genes: [gene_symbol, ZSTAT]
    i5,                \* the row list_maker is at (1-based)
    x_geneset,         \* the tokens of list_maker so far: [gene, weight]
    err5               \* the exception that ended the script, "" if none

vars7 == <<pc7, a, b, o, t, d, db, clmn, final_results, allinall,
           trait_fdr_tissue, written, err7, rowsRead, processed>>
varsG == <<pcG, opts, n_min, files_read, df_read, df_pval, trait_list, ti,
           dict_gene_weights, out_file, errG>>
varsS == <<pcS, optsS, species, loaded, dict_gs, tj, scored, out_folder,
           errS, pc6, err6, env6, out_dir, log6>>
vars5 == <<pc5, magma_genes_out, df_top, df_genes, i5, x_geneset, err5>>
vars == <<vars7, varsG, varsS, vars5>>

(***************************************************************************)
(* Bounds of the model.                                                    *)
(***************************************************************************)
MaxRows == 3           \* rows read over one run of the evaluation
MaxGenes == 3          \* rows of a gene-statistic file
FitTol == 1            \* tolerance of the fit, in units of 1/Scale percent
MaxTraits == 2         \* gene sets of a .gs file

(***************************************************************************)
(* Fixed-point helpers.                                                    *)
(***************************************************************************)
Scale == 10 ^ 4

Max(x, y) == IF x >= y THEN x ELSE y
Min(x, y) == IF x <= y THEN x ELSE y
Abs(x) == IF x >= 0 THEN x ELSE -x

\* Python round(): num/den (num >= 0, den > 0) to the nearest integer, a tie
\* to the even neighbour.
RoundHalfEven(num, den) ==
    LET q == num \div den
        r == num % den
    IN  IF 2 * r < den THEN q
        ELSE IF 2 * r > den THEN q + 1
        ELSE IF q % 2 = 0 THEN q ELSE q + 1

\* mutant: the logarithm of 1 is not 0 (as log10(n + 1) is)
Log10S_OneNotZero(n) ==
    CASE n = 1       -> 3010
      [] n = 100     -> 20000
      [] n = 150     -> 21761
      [] n = 15000   -> 41761
      [] n = 150000  -> 51761
      [] n = 1000000 -> 60000

\* The cell counts the model feeds to the evaluation, and np.log10 of each
\* and of the two anchors, in units of 1/Scale.
Log10S(n) ==
    CASE n = 1       -> 0
      [] n = 100     -> 20000
      [] n = 150     -> 21761
      [] n = 15000   -> 41761
      [] n = 150000  -> 51761
      [] n = 1000000 -> 60000

(***************************************************************************)
(* log_threshold: the two-anchor fit.                                      *)
(***************************************************************************)
min_cell_count == 150
up_threshold == 5
factor == 1000
FloorS == (5 * Scale) \div 1000      \* the floor 0.005

max_cell_count == 150 * factor
low_thresholdS == (up_threshold * Scale) \div factor

\* solve((eq1, eq2), (a, b)) for  a + b/L1 = U,  a + b/L2 = Lo :
\*   b = (U - Lo) * L1 * L2 / (L2 - L1),   a = U - b / L1
SolveB(L1, U, L2, Lo) == ((((U - Lo) * L1) \div (L2 - L1)) * L2) \div Scale
\* mutant: a is taken from the other anchor's logarithm
SolveA_OtherAnchor(L1, U, L2, Lo) == U - ((SolveB(L1, U, L2, Lo) * Scale) \div L2)
SolveA(L1, U, L2, Lo) == U - ((SolveB(L1, U, L2, Lo) * Scale) \div L1)

b_fit == SolveB(Log10S(min_cell_count), up_threshold * Scale,
                Log10S(max_cell_count), low_thresholdS)
a_fit == SolveA(Log10S(min_cell_count), up_threshold * Scale,
                Log10S(max_cell_count), low_thresholdS)

\* mutant: b times the logarithm
tr_Product(x, aa, bb) == aa + ((bb \div 100) * Log10S(x)) \div (Scale \div 100)

\* tr(x) = a + b / log10(x), before the floor
tr(x, aa, bb) == aa + ((bb * Scale) \div Log10S(x))

(***************************************************************************)
(* The inputs of the evaluation: tissues.csv, traits.csv and, per pair,    *)
(* the group-analysis file <tissue>/<trait>.scdrs_group.cell_ontology_class*)
(***************************************************************************)
tissues == <<"liver", "lung">>
traits == <<"PSC", "UC">>

\* A text field of a row: empty, or a number.
Empty == <<>>
Num(v) == <<v>>
IsEmpty(f) == f = <<>>
Val(f) == f[1]

\* The rows a group-analysis file may hold.  group is the text of the name,
\* one character per element; n_cell is a count; assoc_mcp and hetero_mcp are
\* in units of 1e-6; n_fdr is the text field n_fdr_0.05.
Row(g, n, as, he, nf) ==
    [group |-> g, n_cell |-> n, assoc_mcp |-> as, hetero_mcp |-> he, n_fdr |-> nf]

Rows == {
    Row(<<"B">>,           150,     Num(50000), Num(500000), Num(8)),
    Row(<<"T", ",", "4">>, 150,     Empty,      Num(20000),  Num(7)),
    Row(<<"K">>,           100,     Num(10000), Num(500000), Num(20)),
    Row(<<"M">>,           150,     Num(50004), Empty,       Num(8)),
    Row(<<"N">>,           150,     Num(10000), Num(500000), Num(0)),
    Row(<<"E">>,           150,     Num(10000), Num(500000), Empty),
    Row(<<"Z">>,           0,       Num(10000), Num(500000), Num(0)),
    Row(<<"S">>,           1,       Num(10000), Num(500000), Num(1)),
    Row(<<"U">>,           1,       Num(10000), Num(500000), Num(0)),
    Row(<<"H">>,           1000000, Num(10000), Num(500000), Num(46)) }

\* The tables of at most n rows.
Tables(n) == UNION { [1..k -> Rows] : k \in 0..n }

(***************************************************************************)
(* read_file and floatTOnumber.                                            *)
(***************************************************************************)
\* y['group'].str.replace(',', '_')
ReplaceComma(g) == [i \in 1..Len(g) |-> IF g[i] = "," THEN "_" ELSE g[i]]

\* read_file of an existing file with the rows tbl
read_file(tbl) == [i \in 1..Len(tbl) |-> [tbl[i] EXCEPT !.group = ReplaceComma(@)]]

\* mutant: an empty field becomes 1
ZeroIfEmpty_One(f) == IF IsEmpty(f) THEN 1 ELSE Val(f)

\* db.replace({col: {'': 0}}) and astype(float), for the three columns
ZeroIfEmpty(f) == IF IsEmpty(f) THEN 0 ELSE Val(f)
floatTOnumber(tbl) ==
    [i \in 1..Len(tbl) |->
        [tbl[i] EXCEPT !.n_fdr = ZeroIfEmpty(@),
                       !.assoc_mcp = ZeroIfEmpty(@),
                       !.hetero_mcp = ZeroIfEmpty(@)]]

(***************************************************************************)
(* The evaluation of one row (lines 149-175).                              *)
(***************************************************************************)
NaN == <<>>
NaNRow == [assoc |-> NaN, hetero |-> NaN, percent |-> NaN,
           threshold |-> NaN, significancy |-> NaN]

\* round(x, dig) of a value in units of 1e-6, in units of 1e-5
Round5(x) == RoundHalfEven(x, 10)

\* round(n_fdr / n_cell, dig) * 100, in units of 1/Scale percent
Percent(nf, n) == RoundHalfEven(nf * 100000, n) * (Scale \div 1000)

\* max(a + b / log10(n_cell), 0.005)
Threshold(n, aa, bb) == Max(tr(n, aa, bb), FloorS)

\* the exception the row raises, "" if it is evaluated: line 152 divides by
\* n_cell; line 154 divides the fitted b by log10(n_cell) = 0 and max()
\* cannot order the result
RowError(r) ==
    IF r.n_cell = 0 THEN "ZeroDivisionError"
    ELSE IF r.n_fdr > 0 /\ Log10S(r.n_cell) = 0 THEN "TypeError"
    ELSE ""

\* mutant: a percentage equal to the threshold is not significant
Significancy_Strict(pct, thr) == IF pct > thr THEN 1 ELSE 0
Significancy(pct, thr) == IF pct >= thr THEN 1 ELSE 0

\* mutant: a row without significant cells gets the threshold 0
EvalRow_ZeroThreshold(r, aa, bb) ==
    LET pct == Percent(r.n_fdr, r.n_cell)
    IN  [assoc |-> Num(Round5(r.assoc_mcp)),
         hetero |-> Num(Round5(r.hetero_mcp)),
         percent |-> Num(pct),
         threshold |-> IF r.n_fdr > 0 THEN Num(Threshold(r.n_cell, aa, bb)) ELSE Num(0),
         significancy |-> IF r.n_fdr > 0
                          THEN Num(Significancy(pct, Threshold(r.n_cell, aa, bb)))
                          ELSE Num(0)]

\* the derived columns of row r (r is a row of floatTOnumber's result)
EvalRow(r, aa, bb) ==
    LET pct == Percent(r.n_fdr, r.n_cell)
        thr == Threshold(r.n_cell, aa, bb)
    IN  [assoc |-> Num(Round5(r.assoc_mcp)),
         hetero |-> Num(Round5(r.hetero_mcp)),
         percent |-> Num(pct),
         threshold |-> IF r.n_fdr > 0 THEN Num(thr) ELSE NaN,
         significancy |-> IF r.n_fdr > 0 THEN Num(Significancy(pct, thr)) ELSE Num(0)]

\* mutant: only rows flagged significant are kept
InSubset_Significant(r) ==
    /\ r.n_cell >= 150
    /\ r.assoc_mcp <= 50000
    /\ r.n_fdr > 0
    /\ Significancy(Percent(r.n_fdr, r.n_cell),
                    Threshold(r.n_cell, a_fit, b_fit)) = 1

\* mutant: the filter forgets assoc_mcp
InSubset_NoAssoc(r) ==
    /\ r.n_cell >= 150
    /\ r.n_fdr > 0

\* the filter of the significant subset (lines 162-164)
InSubset(r) ==
    /\ r.n_cell >= 150
    /\ r.assoc_mcp <= 50000
    /\ r.n_fdr > 0

\* one row of final_results / allinall
ResultRow(tissue, trait, r, c) ==
    [tissue |-> tissue, trait |-> trait, cell |-> r.group, n_cell |-> r.n_cell,
     assoc |-> c.assoc, hetero |-> c.hetero, percent |-> c.percent,
     threshold |-> c.threshold, significancy |-> c.significancy]

\* one row of the per-pair table trait_fdr_tissue
FullRow(tissue, r, c) ==
    [tissue |-> tissue, cell |-> r.group, n_cell |-> r.n_cell,
     assoc |-> c.assoc, hetero |-> c.hetero, percent |-> c.percent,
     threshold |-> c.threshold, significancy |-> c.significancy]

(***************************************************************************)
(* The script (lines 128-189), one action per step.                        *)
(***************************************************************************)
PairFile(tissue, trait) == <<"Tables", tissue, trait>>
TissueFile(tissue) == <<"Tables", "tissues", tissue>>
AllFile == <<"Tables", "tissues", "all_traits_tissues_cell types">>

Write(file, content) == [file |-> file, content |-> content]

\* stp5_generate_input_file_for_scDRS.py is not run
Idle5 ==
    /\ pc5 = "idle"
    /\ magma_genes_out = <<>>
    /\ df_top = <<>>
    /\ df_genes = <<>>
    /\ i5 = 1
    /\ x_geneset = <<>>
    /\ err5 = ""

\* compute_score is not run
IdleS ==
    /\ pcS = "idle"
    /\ optsS = <<>>
    /\ species = <<>>
    /\ loaded = <<>>
    /\ dict_gs = <<>>
    /\ tj = 1
    /\ scored = <<>>
    /\ out_folder = {}
    /\ errS = <<>>
    /\ pc6 = "idle"
    /\ err6 = ""
    /\ env6 = <<>>
    /\ out_dir = {}
    /\ log6 = <<>>

\* the other program is not run
IdleG ==
    /\ pcG = "idle"
    /\ opts = <<>>
    /\ n_min = 0
    /\ files_read = {}
    /\ df_read = <<>>
    /\ df_pval = <<>>
    /\ trait_list = <<>>
    /\ ti = 1
    /\ dict_gene_weights = <<>>
    /\ out_file = <<>>
    /\ errG = <<>>

InitEval7 ==
    /\ pc7 = "start"
    /\ a = <<>>
    /\ b = <<>>
    /\ o = 1
    /\ t = 1
    /\ d = 1
    /\ db = <<>>
    /\ clmn = <<>>
    /\ final_results = <<>>
    /\ allinall = <<>>
    /\ trait_fdr_tissue = <<>>
    /\ written = <<>>
    /\ err7 = ""
    /\ rowsRead = 0
    /\ processed = <<>>

InitEval == InitEval7 /\ IdleG /\ IdleS /\ Idle5

\* line 129-132: a, b = log_threshold(); allinall = empty
LogThreshold ==
    /\ pc7 = "start"
    /\ a' = Num(a_fit)
    /\ b' = Num(b_fit)
    /\ allinall' = <<>>
    /\ pc7' = "tissue"
    /\ UNCHANGED <<o, t, d, db, clmn, final_results, trait_fdr_tissue,
                   written, err7, rowsRead>>
    /\ UNCHANGED processed
    /\ UNCHANGED <<varsG, varsS, vars5>>

\* mutant: the records of the tissue before are kept
NewResults_Kept(old) == old

\* line 135: final_results = pd.DataFrame(columns=columns), whatever it held
NewResults(old) == <<>>

\* lines 133-135: the next tissue; final_results = empty
TissueStart ==
    /\ pc7 = "tissue"
    /\ o <= Len(tissues)
    /\ final_results' = NewResults(final_results)
    /\ t' = 1
    /\ pc7' = "trait"
    /\ UNCHANGED <<a, b, o, d, db, clmn, allinall, trait_fdr_tissue,
                   written, err7, rowsRead>>
    /\ UNCHANGED processed
    /\ UNCHANGED <<varsG, varsS, vars5>>

\* lines 89-113: what read_file returns for a file that exists with the rows
\* tbl, and for a file that does not exist (an empty table)
ReadResult(exists, tbl) == IF exists THEN read_file(tbl) ELSE <<>>

\* what read_file found: no file, a header alone, or rows
FileKind(exists, tbl) ==
    IF ~exists THEN "missing" ELSE IF Len(tbl) = 0 THEN "header" ELSE "rows"

\* the columns the script reads
Required == {"group", "n_cell", "assoc_mcp", "hetero_mcp", "n_fdr_0.05"}

\* headers that lack one or two of them
PartialHeaders ==
    { Required \ {"group"}, Required \ {"n_cell"}, Required \ {"assoc_mcp"},
      Required \ {"hetero_mcp", "n_fdr_0.05"} }

\* the files a pair can have: none, one with every column and at most n
\* rows, or (when n > 0) one with a partial header and at most one row:
\* <<exists, rows, header>>
PairInputs(n) ==
    { <<FALSE, <<>>, {}>> }
    \cup { <<TRUE, tbl, Required>> : tbl \in Tables(n) }
    \cup { <<TRUE, tbl, h>> :
              tbl \in { x \in Tables(Min(n, 1)) :
                          n > 0 /\ \A i \in 1..Len(x) : x[i].group = <<"B">> },
              h \in PartialHeaders }

\* what a file takes of the bound MaxRows: its rows, and 1 for a partial
\* header
Cost(tbl, header) ==
    IF header \in PartialHeaders THEN 1 ELSE Len(tbl)

\* the column the first failing lookup names, "" if no lookup fails:
\* y['group'] (line 109) for every file that exists; for a table with rows
\* db.loc[:, 'n_cell'] (line 144), then the columns of floatTOnumber in the
\* order of lines 118, 121, 124
MissingKey(exists, tbl, header) ==
    IF ~exists THEN ""
    ELSE IF "group" \notin header THEN "group"
    ELSE IF Len(tbl) = 0 THEN ""
    ELSE IF "n_cell" \notin header THEN "n_cell"
    ELSE IF "n_fdr_0.05" \notin header THEN "n_fdr_0.05"
    ELSE IF "assoc_mcp" \notin header THEN "assoc_mcp"
    ELSE IF "hetero_mcp" \notin header THEN "hetero_mcp"
    ELSE ""

\* the KeyError of a lookup of column col
KeyError(col) ==
    CASE col = "group" -> "KeyError: 'group'"
      [] col = "n_cell" -> "KeyError: 'n_cell'"
      [] col = "assoc_mcp" -> "KeyError: 'assoc_mcp'"
      [] col = "hetero_mcp" -> "KeyError: 'hetero_mcp'"
      [] col = "n_fdr_0.05" -> "KeyError: 'n_fdr_0.05'"

\* mutant: a table is never taken to be empty
db_empty_Never(y) == FALSE

\* line 142: db.empty
db_empty(y) == Len(y) = 0

Processed(tissue, trait, kind, header) ==
    [tissue |-> tissue, trait |-> trait, file |-> kind, header |-> header,
     results |-> <<>>]

\* lines 137-142 for a pair whose file is missing, or holds the header alone:
\* read_file returns an empty table and the pair is skipped
SkipPair ==
    /\ pc7 = "trait"
    /\ t <= Len(traits)
    /\ \E inp \in PairInputs(MaxRows - rowsRead) :
          /\ MissingKey(inp[1], inp[2], inp[3]) = ""
          /\ db_empty(ReadResult(inp[1], inp[2]))
          /\ db' = ReadResult(inp[1], inp[2])
          /\ rowsRead' = rowsRead + Cost(inp[2], inp[3])
          /\ processed' = Append(processed,
                Processed(tissues[o], traits[t], FileKind(inp[1], inp[2]),
                          inp[3]))
    /\ trait_fdr_tissue' = <<>>
    /\ t' = t + 1
    /\ UNCHANGED <<pc7, a, b, o, d, clmn, final_results, allinall,
                   written, err7>>
    /\ UNCHANGED <<varsG, varsS, vars5>>

\* lines 137-147 for a pair whose table is not empty
ReadPair ==
    /\ pc7 = "trait"
    /\ t <= Len(traits)
    /\ \E inp \in PairInputs(MaxRows - rowsRead) :
          /\ MissingKey(inp[1], inp[2], inp[3]) = ""
          /\ ~db_empty(ReadResult(inp[1], inp[2]))
          /\ db' = floatTOnumber(ReadResult(inp[1], inp[2]))
          /\ clmn' = [i \in 1..Len(inp[2]) |-> NaNRow]
          /\ rowsRead' = rowsRead + Len(inp[2])
          /\ processed' = Append(processed,
                Processed(tissues[o], traits[t], FileKind(inp[1], inp[2]),
                          inp[3]))
    /\ trait_fdr_tissue' = <<>>
    /\ d' = 1
    /\ pc7' = "rows"
    /\ UNCHANGED <<a, b, o, t, final_results, allinall, written, err7>>
    /\ UNCHANGED <<varsG, varsS, vars5>>

\* lines 141-147 for a file without a column the script looks up: the
\* lookup raises KeyError, the script ends before any row is evaluated
ReadRaise ==
    /\ pc7 = "trait"
    /\ t <= Len(traits)
    /\ \E inp \in PairInputs(MaxRows - rowsRead) :
          /\ MissingKey(inp[1], inp[2], inp[3]) # ""
          /\ err7' = KeyError(MissingKey(inp[1], inp[2], inp[3]))
          /\ processed' = Append(processed,
                Processed(tissues[o], traits[t], FileKind(inp[1], inp[2]),
                          inp[3]))
    /\ trait_fdr_tissue' = <<>>
    /\ db' = <<>>
    /\ clmn' = <<>>
    /\ d' = 1
    /\ pc7' = "crashed"
    /\ UNCHANGED <<a, b, o, t, final_results, allinall, written, rowsRead>>
    /\ UNCHANGED <<varsG, varsS, vars5>>

\* lines 149-175 for a row that is evaluated
EvalOne ==
    /\ pc7 = "rows"
    /\ d <= Len(db)
    /\ RowError(db[d]) = ""
    /\ LET c == EvalRow(db[d], Val(a), Val(b))
           r == ResultRow(tissues[o], traits[t], db[d], c)
       IN  /\ clmn' = [clmn EXCEPT ![d] = c]
           /\ final_results' =
                 IF InSubset(db[d]) THEN Append(final_results, r)
                 ELSE final_results
           /\ processed' =
                 IF InSubset(db[d])
                 THEN [processed EXCEPT ![Len(processed)].results = Append(@, r)]
                 ELSE processed
    /\ d' = d + 1
    /\ UNCHANGED <<pc7, a, b, o, t, db, allinall, trait_fdr_tissue,
                   written, err7, rowsRead>>
    /\ UNCHANGED <<varsG, varsS, vars5>>

\* lines 149-154 for a row whose evaluation raises: the cells assigned
\* before the failing line stay, the script ends
EvalRaise ==
    /\ pc7 = "rows"
    /\ d <= Len(db)
    /\ RowError(db[d]) # ""
    /\ clmn' = [clmn EXCEPT
                  ![d].assoc = Num(Round5(db[d].assoc_mcp)),
                  ![d].hetero = Num(Round5(db[d].hetero_mcp)),
                  ![d].percent = IF db[d].n_cell = 0 THEN NaN
                                 ELSE Num(Percent(db[d].n_fdr, db[d].n_cell))]
    /\ err7' = RowError(db[d])
    /\ pc7' = "crashed"
    /\ UNCHANGED <<a, b, o, t, d, db, final_results, allinall,
                   trait_fdr_tissue, written, rowsRead>>
    /\ UNCHANGED processed
    /\ UNCHANGED <<varsG, varsS, vars5>>

\* mutant: the per-pair table keeps the rows of the significant subset only
FullTable_SubsetOnly(tissue, tbl, cl) ==
    LET z == [i \in 1..Len(tbl) |-> <<tbl[i], cl[i]>>]
        sel == SelectSeq(z, LAMBDA p : InSubset(p[1]))
    IN  [i \in 1..Len(sel) |-> FullRow(tissue, sel[i][1], sel[i][2])]

\* lines 177-180: which_tissue, cells, cnt and clmn side by side, one row per
\* row of db
FullTable(tissue, tbl, cl) ==
    [i \in 1..Len(tbl) |-> FullRow(tissue, tbl[i], cl[i])]

\* lines 177-183: the full table of the pair is written
WritePair ==
    /\ pc7 = "rows"
    /\ d > Len(db)
    /\ LET full == FullTable(tissues[o], db, clmn)
       IN  /\ trait_fdr_tissue' = full
           /\ written' = Append(written, Write(PairFile(tissues[o], traits[t]), full))
    /\ t' = t + 1
    /\ pc7' = "trait"
    /\ UNCHANGED <<a, b, o, d, db, clmn, final_results, allinall, err7, rowsRead>>
    /\ UNCHANGED processed
    /\ UNCHANGED <<varsG, varsS, vars5>>

\* mutant: the records of the tissue are put in front
ConcatRows_Prepend(x, y) == y \o x

\* line 185: pd.concat([allinall, final_results], axis=0)
ConcatRows(x, y) == x \o y

\* lines 184-187: the end of a tissue
TissueEnd ==
    /\ pc7 = "trait"
    /\ t > Len(traits)
    /\ IF Len(final_results) > 0
       THEN /\ allinall' = ConcatRows(allinall, final_results)
            /\ written' = Append(written, Write(TissueFile(tissues[o]), final_results))
       ELSE UNCHANGED <<allinall, written>>
    /\ o' = o + 1
    /\ pc7' = "tissue"
    /\ UNCHANGED <<a, b, t, d, db, clmn, final_results, trait_fdr_tissue,
                   err7, rowsRead>>
    /\ UNCHANGED processed
    /\ UNCHANGED <<varsG, varsS, vars5>>

\* lines 188-189: the aggregate table is written
WriteAll ==
    /\ pc7 = "tissue"
    /\ o > Len(tissues)
    /\ written' = Append(written, Write(AllFile, allinall))
    /\ pc7' = "done"
    /\ UNCHANGED <<a, b, o, t, d, db, clmn, final_results, allinall,
                   trait_fdr_tissue, err7, rowsRead>>
    /\ UNCHANGED processed
    /\ UNCHANGED <<varsG, varsS, vars5>>

NextEval7 ==
    \/ LogThreshold
    \/ TissueStart
    \/ SkipPair
    \/ ReadPair
    \/ ReadRaise
    \/ EvalOne
    \/ EvalRaise
    \/ WritePair
    \/ TissueEnd
    \/ WriteAll

SpecEval == InitEval /\ [][NextEval7]_vars

(***************************************************************************)
(* Properties of the evaluation.                                           *)
(***************************************************************************)
\* the rows of the current pair the script has evaluated
Evaluated == IF pc7 \in {"rows", "crashed"} THEN 1..(d - 1) ELSE {}
\* the rows of the current pair the script has reached
Reached == IF pc7 = "crashed" /\ d <= Len(db) THEN 1..d ELSE Evaluated

InFinal(i) ==
    \E k \in 1..Len(final_results) :
        final_results[k] = ResultRow(tissues[o], traits[t], db[i], clmn[i])

\* 100 * n_fdr / n_cell >= thr, exactly (thr in units of 1/Scale percent)
ExactPercentAtLeast(nf, n, thr) == 100 * nf * Scale >= thr * n

\* C2: a row is in the significant subset iff n_cell >= min_cell_count (the
\* lower anchor of the fit), assoc_mcp <= 0.05 and n_fdr_0.05 > 0.
C2_SubsetIff ==
    \A i \in Reached :
        InFinal(i) <=> /\ db[i].n_cell >= min_cell_count
                       /\ db[i].assoc_mcp * 100 <= 5 * 1000000
                       /\ db[i].n_fdr > 0

C2_Witness ==
    /\ pc7 = "rows"
    /\ \E i, j \in Evaluated :
          /\ InFinal(i)
          /\ ~InFinal(j)
          /\ db[j].n_fdr > 0
          /\ db[j].assoc_mcp <= 50000

\* the pair whose full table was written last is still the current one
PairWritten == pc7 = "trait" /\ t > 1 /\ trait_fdr_tissue # <<>>

\* a record of the significant subset without its trait column
WithoutTrait(r) ==
    [tissue |-> r.tissue, cell |-> r.cell, n_cell |-> r.n_cell,
     assoc |-> r.assoc, hetero |-> r.hetero, percent |-> r.percent,
     threshold |-> r.threshold, significancy |-> r.significancy]

\* the records of the significant subset that come from the pair written last
SubsetOfPair ==
    SelectSeq(final_results, LAMBDA r : r.trait = traits[t - 1])

\* C12: the full table of a pair holds exactly one evaluated record for
\* every input record, in input order, whether or not the record passes the
\* subset filter, and every record of the significant subset of the pair is
\* one of the records of the full table.
C12_FullAndSubset ==
    PairWritten =>
        /\ written[Len(written)] =
              Write(PairFile(tissues[o], traits[t - 1]), trait_fdr_tissue)
        /\ Len(trait_fdr_tissue) = Len(db)
        /\ \A i \in 1..Len(db) :
              trait_fdr_tissue[i] =
                  FullRow(tissues[o], db[i], EvalRow(db[i], Val(a), Val(b)))
        /\ \A k \in 1..Len(SubsetOfPair) :
              \E i \in 1..Len(db) :
                  /\ WithoutTrait(SubsetOfPair[k]) = trait_fdr_tissue[i]
                  /\ InSubset(db[i])

\* a full table of two records of which the second alone is in the subset
C12_Witness ==
    /\ PairWritten
    /\ Len(trait_fdr_tissue) = 2
    /\ Len(SubsetOfPair) = 1
    /\ ~InSubset(db[1])
    /\ WithoutTrait(SubsetOfPair[1]) = trait_fdr_tissue[2]

\* the subset records of the pairs ps, pair after pair
RECURSIVE ResultsOf(_)
ResultsOf(ps) ==
    IF Len(ps) = 0 THEN <<>>
    ELSE ResultsOf(SubSeq(ps, 1, Len(ps) - 1)) \o ps[Len(ps)].results

\* all pairs, tissue by tissue and trait by trait within a tissue
AllPairs ==
    [i \in 1..(Len(tissues) * Len(traits)) |->
        <<tissues[((i - 1) \div Len(traits)) + 1],
          traits[((i - 1) % Len(traits)) + 1]>>]

\* the writes of the file f so far
WritesOf(f) == SelectSeq(written, LAMBDA w : w.file = f)

MissingPairs == { i \in 1..Len(processed) : processed[i].file = "missing" }

\* C14: a missing input file of a pair is not fatal: the pair gives no
\* records and no per-pair table, the script goes on to the next pair, and
\* at the end of the run every pair was read, every pair with rows has its
\* per-pair table and the aggregate table is written.
C14_MissingNotFatal ==
    /\ \A i \in MissingPairs :
          /\ processed[i].results = <<>>
          /\ Len(WritesOf(PairFile(processed[i].tissue, processed[i].trait))) = 0
    /\ (Len(processed) > 0 /\ Len(processed) \in MissingPairs) =>
          /\ pc7 \in {"trait", "tissue", "done"}
          /\ err7 = ""
    /\ pc7 = "trait" =>
          Len(processed) = (o - 1) * Len(traits) + (t - 1)
    /\ pc7 = "done" =>
          /\ Len(processed) = Len(AllPairs)
          /\ \A i \in 1..Len(processed) :
                processed[i].file = "rows" =>
                    Len(WritesOf(PairFile(processed[i].tissue, processed[i].trait))) = 1
          /\ Len(WritesOf(AllFile)) = 1

\* a run that ends after a missing file for the first pair, with a per-pair
\* table for a later pair of the same tissue and for a pair of the next
C14_Witness ==
    /\ pc7 = "done"
    /\ 1 \in MissingPairs
    /\ processed[2].file = "rows"
    /\ processed[3].file = "rows"
    /\ Len(processed[3].results) = 1
    /\ Len(WritesOf(PairFile(tissues[1], traits[1]))) = 0
    /\ Len(WritesOf(PairFile(tissues[1], traits[2]))) = 1
    /\ Len(written[Len(written)].content) = 1

\* the required columns the error that ended the script names
NamedColumns == { c \in Required : err7 = KeyError(c) }

\* the files read so far that exist and lack a required column
LackingColumns ==
    { i \in 1..Len(processed) :
         processed[i].file # "missing" /\ Required \ processed[i].header # {} }

\* C21: if a group-analysis table lacks any of the required columns, its
\* evaluation fails with an error that names the missing columns, and no
\* evaluated records are produced from it.
C21_SchemaError ==
    \A i \in LackingColumns :
        /\ i = Len(processed)
        /\ pc7 = "crashed"
        /\ NamedColumns = Required \ processed[i].header
        /\ processed[i].results = <<>>
        /\ Len(WritesOf(PairFile(processed[i].tissue, processed[i].trait))) = 0

\* the cell counts above 1 whose logarithm the model holds
CellCounts == {100, 150, 15000, 150000, 1000000}

\* C22: the evaluated threshold max(a + b/log10(n_cell), floor) is
\* non-increasing in n_cell for 1 < n1 <= n2 and never below the floor, for
\* the fitted a and b and for the thresholds stored for evaluated rows.
C22_Monotone ==
    a # <<>> =>
        /\ \A n1, n2 \in CellCounts :
              n1 <= n2 =>
                  Threshold(n2, Val(a), Val(b)) <= Threshold(n1, Val(a), Val(b))
        /\ \A n \in CellCounts : Threshold(n, Val(a), Val(b)) >= FloorS
        /\ \A i \in Evaluated :
              clmn[i].threshold # NaN =>
                  /\ db[i].n_cell \in CellCounts
                  /\ Val(clmn[i].threshold) = Threshold(db[i].n_cell, Val(a), Val(b))
                  /\ Val(clmn[i].threshold) >= FloorS

\* three evaluated rows of growing cell count with falling thresholds, the
\* last one at the floor
C22_Witness ==
    /\ pc7 = "rows"
    /\ d = 4
    /\ db[1].n_cell < db[2].n_cell
    /\ db[2].n_cell < db[3].n_cell
    /\ \A i \in 1..3 : clmn[i].threshold # NaN
    /\ Val(clmn[1].threshold) > Val(clmn[2].threshold)
    /\ Val(clmn[2].threshold) > Val(clmn[3].threshold)
    /\ Val(clmn[3].threshold) = FloorS
    /\ tr(db[3].n_cell, Val(a), Val(b)) < FloorS

\* the rows of the table tbl that equal the record r
Holds(tbl, r) == \E k \in 1..Len(tbl) : tbl[k] = r

\* C25: membership in the significant subset does not depend on the
\* significance flag: a row with n_cell >= 150, assoc_mcp <= 0.05 and
\* n_fdr_0.05 > 0 is in the subset whatever its flag, and its record, flag
\* included, is in the per-tissue table and in the aggregate table once
\* these are written.
C25_FlagIndependent ==
    /\ \A i \in Evaluated :
          (db[i].n_cell >= 150 /\ db[i].assoc_mcp <= 50000 /\ db[i].n_fdr > 0)
             => /\ InFinal(i)
                /\ Holds(processed[Len(processed)].results,
                         ResultRow(tissues[o], traits[t], db[i], clmn[i]))
    /\ \A i \in 1..Len(processed) :
          \A k \in 1..Len(processed[i].results) :
              LET r == processed[i].results[k]
              IN  /\ r.significancy \in {Num(0), Num(1)}
                  /\ Len(WritesOf(TissueFile(r.tissue))) > 0
                        => Holds(WritesOf(TissueFile(r.tissue))[1].content, r)
                  /\ Len(WritesOf(AllFile)) > 0
                        => Holds(WritesOf(AllFile)[1].content, r)

\* a record flagged not significant, in its per-tissue table and in the
\* aggregate table
C25_Witness ==
    /\ pc7 = "done"
    /\ \E r \in { processed[1].results[k] : k \in 1..Len(processed[1].results) } :
          /\ r.significancy = Num(0)
          /\ Val(r.percent) < Val(r.threshold)
          /\ Holds(WritesOf(TissueFile(r.tissue))[1].content, r)
          /\ Holds(WritesOf(AllFile)[1].content, r)

\* the subset records of the x-th tissue, trait after trait
ResultsOfTissue(x) ==
    ResultsOf(SelectSeq(processed, LAMBDA p : p.tissue = tissues[x]))

\* C26: the per-tissue accumulator is reset at the start of every tissue:
\* the per-tissue table of a tissue holds the subset records of that tissue
\* alone, in trait order, and is written (once, at the end of the tissue)
\* iff the tissue has a subset record; the aggregate table is written
\* exactly once, after all tissues, even when it is empty.
C26_PerTissueReset ==
    /\ \A x \in 1..Len(tissues) :
          LET w == WritesOf(TissueFile(tissues[x]))
          IN  IF pc7 # "start" /\ o > x
              THEN /\ Len(w) = (IF Len(ResultsOfTissue(x)) > 0 THEN 1 ELSE 0)
                   /\ Len(w) = 1 => w[1].content = ResultsOfTissue(x)
              ELSE Len(w) = 0
    /\ pc7 \in {"trait", "rows"} => final_results = ResultsOfTissue(o)
    /\ Len(WritesOf(AllFile)) = (IF pc7 = "done" THEN 1 ELSE 0)
    /\ pc7 = "done" =>
          /\ o > Len(tissues)
          /\ written[Len(written)].file = AllFile

\* the first tissue with records of both traits, the second with rows but
\* without a record and so without a table
C26_Witness ==
    /\ pc7 = "done"
    /\ Len(processed[1].results) = 1
    /\ Len(processed[2].results) = 1
    /\ processed[3].file = "rows"
    /\ Len(ResultsOfTissue(2)) = 0
    /\ Len(WritesOf(TissueFile(tissues[1]))[1].content) = 2
    /\ Len(WritesOf(TissueFile(tissues[2]))) = 0

\* a run without any record: the aggregate table is written, empty
C26_EmptyAggregate ==
    /\ pc7 = "done"
    /\ WritesOf(AllFile) = <<Write(AllFile, <<>>)>>
    /\ Len(written) = 1

\* the row of the file that the row r of db was read from
RawOf(r) == CHOOSE x \in Rows : ReplaceComma(x.group) = r.group

C3_Original ==
    \A i \in Evaluated :
        IF db[i].n_fdr > 0 /\ db[i].n_cell > 0
        THEN /\ clmn[i].threshold =
                   Num(Max(Val(a) + (Val(b) * Scale) \div Log10S(db[i].n_cell), FloorS))
             /\ clmn[i].significancy = Num(1)
                   <=> ExactPercentAtLeast(db[i].n_fdr, db[i].n_cell,
                                           Val(clmn[i].threshold))
        ELSE clmn[i].significancy = Num(0)

\* C3 (amended): for an evaluated row with n_fdr_0.05 > 0 and n_cell > 1 the
\* threshold is max(a + b/log10(n_cell), floor) and the flag is set exactly
\* when round(n_fdr_0.05 / n_cell, 5) * 100 >= threshold; a row with
\* n_fdr_0.05 = 0 has the flag 0.
C3_RoundedPercent ==
    \A i \in Evaluated :
        IF db[i].n_fdr > 0
        THEN /\ db[i].n_cell > 1
             /\ clmn[i].threshold =
                   Num(Max(Val(a) + (Val(b) * Scale) \div Log10S(db[i].n_cell), FloorS))
             /\ clmn[i].significancy = Num(1)
                   <=> RoundHalfEven(db[i].n_fdr * 100000, db[i].n_cell) * 10
                          >= Val(clmn[i].threshold)
             /\ clmn[i].significancy \in {Num(0), Num(1)}
        ELSE clmn[i].significancy = Num(0)

\* a flagged row and an unflagged row with significant cells, and a row the
\* rounding decides
C3_Witness ==
    /\ pc7 = "rows"
    /\ \E i, j \in Evaluated :
          /\ db[i].n_fdr > 0 /\ clmn[i].significancy = Num(1)
          /\ db[j].n_fdr > 0 /\ clmn[j].significancy = Num(0)
          /\ ~ExactPercentAtLeast(db[i].n_fdr, db[i].n_cell, Val(clmn[i].threshold))

\* C4 (as stated): a row with n_fdr_0.05 = 0 has threshold 0, flag false, and
\* is not in the significant subset.
C4_Original ==
    \A i \in Evaluated :
        db[i].n_fdr = 0 =>
            /\ clmn[i].threshold = Num(0)
            /\ clmn[i].significancy = Num(0)
            /\ ~InFinal(i)

\* C4 (amended): a row with n_fdr_0.05 = 0 is never given a threshold (the
\* cell stays missing), is never flagged significant and is never in the
\* significant subset, whatever n_cell, assoc_mcp and hetero_mcp are.
C4_NoThreshold ==
    \A i \in Reached :
        db[i].n_fdr = 0 =>
            /\ clmn[i].threshold = NaN
            /\ clmn[i].significancy # Num(1)
            /\ ~InFinal(i)

C4_Witness ==
    /\ pc7 = "rows"
    /\ \E i, j \in Evaluated :
          /\ db[i].n_fdr = 0
          /\ db[i].n_cell >= 150
          /\ db[i].assoc_mcp <= 50000
          /\ clmn[i].significancy = Num(0)
          /\ InFinal(j)

\* C5: percent is 100 * n_fdr_0.05 / n_cell (to the 5 digits kept) when
\* n_cell > 0 and 0 when n_cell = 0; a row with n_cell = 0 is evaluated and
\* does not end the run.
C5_PercentTotal ==
    \A i \in Reached :
        IF db[i].n_cell > 0
        THEN /\ clmn[i].percent # NaN
             /\ 2 * Abs(Val(clmn[i].percent) * db[i].n_cell
                          - 100 * db[i].n_fdr * Scale) <= 10 * db[i].n_cell
        ELSE /\ clmn[i].percent = Num(0)
             /\ pc7 # "crashed"

\* C7: the fitted curve passes through both anchors (before the floor).
C7_Anchors ==
    a # <<>> =>
        /\ Abs(tr(min_cell_count, Val(a), Val(b)) - up_threshold * Scale) <= FitTol
        /\ Abs(tr(min_cell_count * factor, Val(a), Val(b))
                 - (up_threshold * Scale) \div factor) <= FitTol

C7_Witness ==
    /\ pc7 = "tissue"
    /\ a # <<>>
    /\ Val(b) > 0
    /\ Val(a) < 0

(***************************************************************************)
(* munge_gs (bin/scdrs_.py, lines 270-488).                                *)
(*                                                                         *)
(* A p-value is an integer code: v > 0 is v * 1e-6, v < 0 is 10^v (a value *)
(* below the 1e-6 grid), PZero is 0.0.  The order of the codes is the      *)
(* order of the values.  A z-score or a weight is in units of 1e-6.        *)
(***************************************************************************)
PZero == -(4 * 100)
PClip == -(100)                 \* 1e-100, the lower clip of line 471
ZCap == 10 * 1000000            \* 10, the upper clip of line 474
NegInf == -(10 ^ 9)             \* -inf
None == <<>>

\* gene identifiers, character by character; an identifier is any text of
\* the first column of the file (the second has the form of an HGNC id)
GeneNames == << <<"g", "1">>, <<"H", ":", "2">>, <<"g", "3">>,
                <<"g", ",", "4">>, <<"g", "5">>, <<"g", "6">> >>

\* the rows of a p-value file and of a z-score file: the cells of the first
\* and of the second trait column
PRows == { <<Num(1000),   NaN>>,
           <<Num(30000),  Num(1000)>>,
           <<Num(600000), Num(-200)>>,
           <<NaN,         Num(1000000)>>,
           <<Num(500000), Num(600000)>> }

ZRows == { <<Num(3090232), NaN>>,
           <<Num(1880794), Num(9000000)>>,
           <<Num(-253347), Num(3090232)>>,
           <<NaN,          Num(-1281552)>>,
           <<Num(0),       Num(1880794)>> }

\* the index column: unique names, the last row repeating the first name,
\* or one name on every row
Indexes(n) ==
    { [i \in 1..n |-> GeneNames[i]] } \cup
    { [i \in 1..n |-> IF i = n THEN GeneNames[1] ELSE GeneNames[i]] } \cup
    { [i \in 1..n |-> GeneNames[1]] }

ColumnOrders == { <<"BMI", "HEIGHT">>, <<"HEIGHT", "BMI">> }

\* the files of at most n rows over the row set rows
StatFiles(rows, n) ==
    UNION { { [index |-> ix, columns |-> co, data |-> da] :
                ix \in Indexes(m), co \in ColumnOrders, da \in [1..m -> rows] }
            : m \in 1..n }

\* scdrs.util.zsc2pval: 1 - norm.cdf(z)
zsc2pval(z) ==
    CASE z = 9000000  -> PZero
      [] z = 3090232  -> 1000
      [] z = 1880794  -> 30000
      [] z = 0        -> 500000
      [] z = -253347  -> 600000
      [] z = -1281552 -> 900000

\* scdrs.util.pval2zsc: -norm.ppf(p)
pval2zsc(p) ==
    CASE p = -200    -> 30205594
      [] p = PClip   -> 21273454
      [] p = 1000    -> 3090232
      [] p = 30000   -> 1880794
      [] p = 500000  -> 0
      [] p = 600000  -> -253347
      [] p = 900000  -> -1281552
      [] p = 1000000 -> NegInf

\* index.duplicated(): the names of the rows that repeat an earlier row
RECURSIVE Duplicated(_, _)
Duplicated(ix, i) ==
    IF i > Len(ix) THEN <<>>
    ELSE (IF \E j \in 1..(i - 1) : ix[j] = ix[i] THEN <<ix[i]>> ELSE <<>>)
         \o Duplicated(ix, i + 1)

\* mutant: only neighbouring rows are compared
is_unique_Adjacent(ix) == \A i \in 1..(Len(ix) - 1) : ix[i] # ix[i + 1]
is_unique(ix) == \A i, j \in 1..Len(ix) : ix[i] = ix[j] => i = j

\* sorted(df_pval.columns), for two columns
InOrder(x, y) ==
    \/ x = y
    \/ x = "BMI" /\ y = "HEIGHT"
\* mutant: the columns are taken in file order
sorted_FileOrder(cols) == cols

sorted(cols) ==
    IF Len(cols) = 2 /\ ~InOrder(cols[1], cols[2]) THEN <<cols[2], cols[1]>> ELSE cols

ColOf(df, trait) == CHOOSE c \in 1..Len(df.columns) : df.columns[c] = trait

\* mutant: a row with a missing value in any column is dropped
RECURSIVE DropNa_AnyColumn(_, _, _)
DropNa_AnyColumn(df, c, i) ==
    IF i > Len(df.data) THEN <<>>
    ELSE (IF \E x \in 1..Len(df.data[i]) : df.data[i][x] = NaN
          THEN <<>> ELSE <<i>>) \o DropNa_AnyColumn(df, c, i + 1)

\* df_pval[[trait]].dropna(): the rows with a p-value for the trait, in row
\* order, as row numbers
RECURSIVE DropNa(_, _, _)
DropNa(df, c, i) ==
    IF i > Len(df.data) THEN <<>>
    ELSE (IF df.data[i][c] = NaN THEN <<>> ELSE <<i>>) \o DropNa(df, c, i + 1)

\* the p-value as a number of 1e-6 (a value below the grid counts as 0)
PNum(p) == IF p < 0 THEN 0 ELSE p

\* multipletests(pvals, alpha, "fdr_bh")[0].sum(): the largest k with
\* p_(k) <= k/m * alpha, for the p-values ps in ascending order
BHCount(ps, alpha) ==
    LET m == Len(ps)
        ok == { k \in 1..m : PNum(ps[k]) * m <= k * alpha }
    IN  IF ok = {} THEN 0 ELSE CHOOSE k \in ok : \A j \in ok : j <= k

\* multipletests(pvals, alpha, "bonferroni")[0].sum(): p <= alpha / m
BonfCount(ps, alpha) ==
    LET m == Len(ps)
    IN  Cardinality({ k \in 1..m : PNum(ps[k]) * m <= alpha })

\* mutant: the rows are not sorted
SortedOrders_Unsorted(df, c, rs) ==
    LET n == Len(rs)
        S == { rs[i] : i \in 1..n }
    IN  { q \in [1..n -> S] : \A i, j \in 1..n : q[i] = q[j] => i = j }

\* sort_values(trait, ascending=True): the orders of the row numbers rs that
\* are ascending in the p-value (equal p-values in either order)
SortedOrders(df, c, rs) ==
    LET n == Len(rs)
        S == { rs[i] : i \in 1..n }
    IN  { q \in [1..n -> S] :
            /\ \A i, j \in 1..n : q[i] = q[j] => i = j
            /\ \A i \in 1..(n - 1) :
                  Val(df.data[q[i]][c]) <= Val(df.data[q[i + 1]][c]) }

\* iloc[:n]
ILocHead(sq, n) ==
    IF n >= 0 THEN SubSeq(sq, 1, Min(n, Len(sq)))
    ELSE SubSeq(sq, 1, Max(Len(sq) + n, 0))

\* mutant: the count is not capped at n_max
NGene_NoMax(fdr, fwer, ps, nmin, nmax) ==
    LET n0 == IF fdr # None THEN BHCount(ps, Val(fdr))
              ELSE IF fwer # None THEN BonfCount(ps, Val(fwer))
              ELSE nmax
    IN  Max(n0, nmin)

\* mutant: the count is not raised to n_min
NGene_NoMin(fdr, fwer, ps, nmin, nmax) ==
    LET n0 == IF fdr # None THEN BHCount(ps, Val(fdr))
              ELSE IF fwer # None THEN BonfCount(ps, Val(fwer))
              ELSE nmax
    IN  Min(n0, nmax)

\* lines 450-464: the number of genes to select
NGene(fdr, fwer, ps, nmin, nmax) ==
    LET n0 == IF fdr # None THEN BHCount(ps, Val(fdr))
              ELSE IF fwer # None THEN BonfCount(ps, Val(fwer))
              ELSE nmax
    IN  Max(Min(n0, nmax), nmin)

\* values.clip(min=1e-100)
ClipMin(p) == IF p < PClip THEN PClip ELSE p

\* mutant: the z-score is not capped at 10
GeneWeight_NoCap(weight, p) ==
    IF weight = "zscore" THEN pval2zsc(ClipMin(p)) ELSE 1000000

\* line 474: pval2zsc(gene_pvals).clip(max=10); line 476: np.ones
GeneWeight(weight, p) ==
    IF weight = "zscore" THEN Min(pval2zsc(ClipMin(p)), ZCap) ELSE 1000000

\* f"{w:.5g}": the weight at 5 significant digits
Fmt5g(w) ==
    LET m == Abs(w)
        step == IF m >= 10000000 THEN 1000
                ELSE IF m >= 1000000 THEN 100
                ELSE IF m >= 100000 THEN 10
                ELSE 1
        r == RoundHalfEven(m, step) * step
    IN  IF w = NegInf THEN NegInf ELSE IF w < 0 THEN -r ELSE r

\* A string is a sequence of lexemes: a character, or a formatted number
\* (its characters are digits, sign, point and exponent, kept as the number
\* they denote).
Chr(c) == [c |-> c, w |-> 0]
Wgt(w) == [c |-> "", w |-> w]
Str(name) == [i \in 1..Len(name) |-> Chr(name[i])]

\* line 480: f"{g}:{w:.5g}"
Token(g, w) == Str(g) \o <<Chr(":")>> \o <<Wgt(Fmt5g(w))>>

\* sep.join(toks)
RECURSIVE Join(_, _)
Join(sep, toks) ==
    IF Len(toks) = 0 THEN <<>>
    ELSE IF Len(toks) = 1 THEN toks[1]
    ELSE toks[1] \o <<sep>> \o Join(sep, Tail(toks))

\* str.split(sep): the pieces between the separators (one empty piece for
\* the empty string)
RECURSIVE Split(_, _)
Split(str, sep) ==
    IF \A i \in 1..Len(str) : str[i] # sep THEN <<str>>
    ELSE LET i == CHOOSE j \in 1..Len(str) :
                      str[j] = sep /\ \A h \in 1..(j - 1) : str[h] # sep
         IN  <<SubSeq(str, 1, i - 1)>> \o Split(SubSeq(str, i + 1, Len(str)), sep)

(***************************************************************************)
(* munge_gs, one action per step.                                          *)
(***************************************************************************)
Options ==
    [pval_file : BOOLEAN, zscore_file : BOOLEAN,
     weight : {"zscore", "uniform", "rank"},
     fdr : {None, Num(50000)}, fwer : {None, Num(50000)},
     n_min : {0, 2, 5}, n_max : {1, 2, 4},
     out_file : BOOLEAN]

\* the other program is not run
Idle7 ==
    /\ pc7 = "idle"
    /\ a = <<>>
    /\ b = <<>>
    /\ o = 1
    /\ t = 1
    /\ d = 1
    /\ db = <<>>
    /\ clmn = <<>>
    /\ final_results = <<>>
    /\ allinall = <<>>
    /\ trait_fdr_tissue = <<>>
    /\ written = <<>>
    /\ err7 = ""
    /\ rowsRead = 0
    /\ processed = <<>>

InitMunge ==
    /\ pcG = "start"
    /\ opts \in Options
    /\ n_min = opts.n_min
    /\ files_read = {}
    /\ df_read = <<>>
    /\ df_pval = <<>>
    /\ trait_list = <<>>
    /\ ti = 1
    /\ dict_gene_weights = <<>>
    /\ out_file = <<>>
    /\ errG = None
    /\ Idle7
    /\ IdleS
    /\ Idle5

\* mutant: --fdr together with --fwer is accepted
OptionsError_NoExclusive(op) ==
    IF (IF op.pval_file THEN 1 ELSE 0) + (IF op.zscore_file THEN 1 ELSE 0) # 1
    THEN <<"AssertionError", "One of --pval-file and --zscore-file is expected.">>
    ELSE IF op.weight \notin {"zscore", "uniform"}
    THEN <<"AssertionError", "--weight needs to be one of 'zscore', 'uniform'">>
    ELSE IF ~op.out_file
    THEN <<"AssertionError", "--out-file is expected.">>
    ELSE None

\* lines 347-373: the first assertion that fails, None if none does
OptionsError(op) ==
    IF (IF op.pval_file THEN 1 ELSE 0) + (IF op.zscore_file THEN 1 ELSE 0) # 1
    THEN <<"AssertionError", "One of --pval-file and --zscore-file is expected.">>
    ELSE IF op.weight \notin {"zscore", "uniform"}
    THEN <<"AssertionError", "--weight needs to be one of 'zscore', 'uniform'">>
    ELSE IF ~(op.fdr = None \/ op.fwer = None)
    THEN <<"AssertionError", "At most one of --fdr and --fwer is allowed.">>
    ELSE IF ~op.out_file
    THEN <<"AssertionError", "--out-file is expected.">>
    ELSE None

\* mutant: n_min is left as given
ClampNMin_None(nmin, nmax) == nmin

\* line 369: n_min = min(n_min, n_max)
ClampNMin(nmin, nmax) == Min(nmin, nmax)

\* lines 347-375
ParseOptions ==
    /\ pcG = "start"
    /\ IF OptionsError(opts) # None
       THEN /\ errG' = OptionsError(opts)
            /\ pcG' = "failed"
            /\ n_min' = IF OptionsError(opts)[2] = "--out-file is expected."
                        THEN ClampNMin(opts.n_min, opts.n_max) ELSE n_min
       ELSE /\ n_min' = ClampNMin(opts.n_min, opts.n_max)
            /\ pcG' = "load"
            /\ UNCHANGED errG
    /\ UNCHANGED <<opts, files_read, df_read, df_pval, trait_list, ti,
                   dict_gene_weights, out_file>>
    /\ UNCHANGED <<vars7, varsS, vars5>>

\* the ValueError of lines 392-396 and 420-424
DuplicateError(which, ix) ==
    <<"ValueError", which, Duplicated(ix, 1)>>

\* lines 380-405 and 439-443: the p-value file is read
LoadPval ==
    /\ pcG = "load"
    /\ opts.pval_file
    /\ \E f \in StatFiles(PRows, MaxGenes) :
          /\ files_read' = files_read \cup {"pval_file"}
          /\ df_read' = f
          /\ IF ~is_unique(f.index)
             THEN /\ errG' = DuplicateError("p-value", f.index)
                  /\ pcG' = "failed"
                  /\ UNCHANGED <<df_pval, trait_list>>
             ELSE /\ df_pval' = f
                  /\ trait_list' = sorted(f.columns)
                  /\ pcG' = "compute"
                  /\ UNCHANGED errG
    /\ UNCHANGED <<opts, n_min, ti, dict_gene_weights, out_file>>
    /\ UNCHANGED <<vars7, varsS, vars5>>

\* lines 434-436: every z-score becomes a p-value
ConvertZ(f) ==
    [f EXCEPT !.data =
        [i \in 1..Len(f.data) |->
            [c \in 1..Len(f.data[i]) |->
                IF f.data[i][c] = NaN THEN NaN
                ELSE Num(zsc2pval(Val(f.data[i][c])))]]]

\* lines 407-443: the z-score file is read
LoadZscore ==
    /\ pcG = "load"
    /\ opts.zscore_file
    /\ \E f \in StatFiles(ZRows, MaxGenes) :
          /\ files_read' = files_read \cup {"zscore_file"}
          /\ df_read' = f
          /\ IF ~is_unique(f.index)
             THEN /\ errG' = DuplicateError("z-score", f.index)
                  /\ pcG' = "failed"
                  /\ UNCHANGED <<df_pval, trait_list>>
             ELSE /\ df_pval' = ConvertZ(f)
                  /\ trait_list' = sorted(f.columns)
                  /\ pcG' = "compute"
                  /\ UNCHANGED errG
    /\ UNCHANGED <<opts, n_min, ti, dict_gene_weights, out_file>>
    /\ UNCHANGED <<vars7, varsS, vars5>>

\* lines 466-476: the genes and their weights, for the rows q (row numbers
\* in ascending p-value) of column c, each weight as line 480 formats it
GeneSet(df, c, q, n_gene, weight) ==
    LET top == ILocHead(q, n_gene)
    IN  [i \in 1..Len(top) |->
            <<df.index[top[i]], Fmt5g(GeneWeight(weight, Val(df.data[top[i]][c])))>>]

\* lines 478-481: the GENESET string of the rows q of column c
GeneSetString(df, c, q, n_gene, weight) ==
    LET top == ILocHead(q, n_gene)
    IN  Join(Chr(","),
             [i \in 1..Len(top) |->
                 Token(df.index[top[i]],
                       GeneWeight(weight, Val(df.data[top[i]][c])))])

PValsOf(df, c, q) == [i \in 1..Len(q) |-> Val(df.data[q[i]][c])]

\* lines 444-481: one trait
MungeTrait ==
    /\ pcG = "compute"
    /\ ti <= Len(trait_list)
    /\ LET trait == trait_list[ti]
           c == ColOf(df_pval, trait)
           rs == DropNa(df_pval, c, 1)
       IN  \E q \in SortedOrders(df_pval, c, rs) :
              LET n_gene == NGene(opts.fdr, opts.fwer, PValsOf(df_pval, c, q),
                                  n_min, opts.n_max)
              IN  dict_gene_weights' =
                     Append(dict_gene_weights,
                            [TRAIT |-> trait,
                             n_gene |-> n_gene,
                             GENESET |-> GeneSet(df_pval, c, q, n_gene, opts.weight),
                             string |-> GeneSetString(df_pval, c, q, n_gene,
                                                      opts.weight)])
    /\ ti' = ti + 1
    /\ UNCHANGED <<pcG, opts, n_min, files_read, df_read, df_pval, trait_list,
                   out_file, errG>>
    /\ UNCHANGED <<vars7, varsS, vars5>>

\* lines 450-457 for a trait without any p-value: multipletests divides by
\* the number of tests
MungeRaise ==
    /\ pcG = "compute"
    /\ ti <= Len(trait_list)
    /\ opts.fdr # None \/ opts.fwer # None
    /\ DropNa(df_pval, ColOf(df_pval, trait_list[ti]), 1) = <<>>
    /\ errG' = <<"ZeroDivisionError", "multipletests">>
    /\ pcG' = "failed"
    /\ UNCHANGED <<opts, n_min, files_read, df_read, df_pval, trait_list, ti,
                   dict_gene_weights, out_file>>
    /\ UNCHANGED <<vars7, varsS, vars5>>

\* lines 482-483: the .gs file is written
WriteGS ==
    /\ pcG = "compute"
    /\ ti > Len(trait_list)
    /\ out_file' = <<dict_gene_weights>>
    /\ pcG' = "done"
    /\ UNCHANGED <<opts, n_min, files_read, df_read, df_pval, trait_list, ti,
                   dict_gene_weights, errG>>
    /\ UNCHANGED <<vars7, varsS, vars5>>

NextMunge ==
    \/ ParseOptions
    \/ LoadPval
    \/ LoadZscore
    \/ MungeTrait
    \/ MungeRaise
    \/ WriteGS

SpecMunge == InitMunge /\ [][NextMunge]_vars

(***************************************************************************)
(* Properties of munge_gs.                                                 *)
(***************************************************************************)
\* the number of genes with a statistic for the trait
Available(trait) ==
    Cardinality({ i \in 1..Len(df_pval.data) :
                     df_pval.data[i][ColOf(df_pval, trait)] # NaN })

\* the p-value of gene g for the trait
PValueOf(g, trait) ==
    LET i == CHOOSE j \in 1..Len(df_pval.index) : df_pval.index[j] = g
    IN  Val(df_pval.data[i][ColOf(df_pval, trait)])

Emitted == 1..Len(dict_gene_weights)

\* C1 (as stated): every emitted gene set has between n_min and n_max genes.
C1_Original ==
    \A e \in Emitted :
        /\ n_min <= Len(dict_gene_weights[e].GENESET)
        /\ Len(dict_gene_weights[e].GENESET) <= opts.n_max

\* C1 (amended): every emitted gene set has at most n_max genes and at least
\* min(n_min, number of genes with a statistic for the trait) genes, n_min
\* being the minimum after its clamp to n_max.
C1_SizeBounds ==
    \A e \in Emitted :
        /\ Min(n_min, Available(dict_gene_weights[e].TRAIT))
              <= Len(dict_gene_weights[e].GENESET)
        /\ Len(dict_gene_weights[e].GENESET) <= opts.n_max

\* a set cut at n_max by a selection that passes more, and a set short of
\* n_min for want of genes
C1_Witness ==
    /\ opts.fdr # None
    /\ \E e, f \in Emitted :
          /\ Len(dict_gene_weights[e].GENESET) = opts.n_max
          /\ Available(dict_gene_weights[e].TRAIT) > opts.n_max
          /\ Len(dict_gene_weights[f].GENESET) < n_min
          /\ Available(dict_gene_weights[f].TRAIT) > 0

\* C6 (as stated): with weight zscore every emitted weight is in (0, 10].
C6_Original ==
    (pcG \in {"compute", "done"} /\ opts.weight = "zscore") =>
        \A e \in Emitted :
            \A i \in 1..Len(dict_gene_weights[e].GENESET) :
                /\ dict_gene_weights[e].GENESET[i][2] > 0
                /\ dict_gene_weights[e].GENESET[i][2] <= 10 * 1000000

\* C6 (amended): with weight zscore every emitted weight is at most 10, and
\* it is positive exactly when the gene's p-value is below 0.5.
C6_WeightRange ==
    (pcG \in {"compute", "done"} /\ opts.weight = "zscore") =>
        \A e \in Emitted :
            \A i \in 1..Len(dict_gene_weights[e].GENESET) :
                LET g == dict_gene_weights[e].GENESET[i][1]
                    w == dict_gene_weights[e].GENESET[i][2]
                IN  /\ w <= 10 * 1000000
                    /\ w > 0 <=> PValueOf(g, dict_gene_weights[e].TRAIT) < 500000

\* a weight at the cap and a weight below zero in one run
C6_Witness ==
    /\ pcG = "done"
    /\ opts.weight = "zscore"
    /\ \E e, f \in Emitted :
          /\ \E i \in 1..Len(dict_gene_weights[e].GENESET) :
                /\ dict_gene_weights[e].GENESET[i][2] = 10 * 1000000
                /\ PValueOf(dict_gene_weights[e].GENESET[i][1],
                            dict_gene_weights[e].TRAIT) < PClip
          /\ \E i \in 1..Len(dict_gene_weights[f].GENESET) :
                dict_gene_weights[f].GENESET[i][2] < 0

\* the names that occur on more than one row of the table read
Repeated == { df_read.index[i] : i \in { j \in 1..Len(df_read.index) :
                  \E h \in 1..Len(df_read.index) :
                      h # j /\ df_read.index[h] = df_read.index[j] } }

\* C8: a table with a repeated gene name ends munge_gs with an error that
\* names the repeated names; no gene set is computed, no .gs file written.
C8_DuplicateFails ==
    (df_read # <<>> /\ Repeated # {}) =>
        /\ pcG = "failed"
        /\ errG[1] = "ValueError"
        /\ { errG[3][i] : i \in 1..Len(errG[3]) } = Repeated
        /\ df_pval = <<>>
        /\ dict_gene_weights = <<>>
        /\ out_file = <<>>

C8_Witness ==
    /\ pcG = "failed"
    /\ errG # None
    /\ errG[1] = "ValueError"
    /\ errG[2] = "z-score"
    /\ Len(df_read.index) = 3
    /\ Len(errG[3]) = 2

\* C9: with neither or both of the sources, or with both fdr and fwer,
\* munge_gs fails before it reads a file, computes or writes anything.
Conflicting ==
    \/ opts.pval_file = opts.zscore_file
    \/ opts.fdr # None /\ opts.fwer # None

C9_ConflictRejected ==
    (pcG \notin {"idle", "start"} /\ Conflicting) =>
        /\ pcG = "failed"
        /\ errG[1] = "AssertionError"
        /\ files_read = {}
        /\ df_read = <<>>
        /\ dict_gene_weights = <<>>
        /\ out_file = <<>>

C9_Witness ==
    /\ pcG = "failed"
    /\ opts.pval_file /\ ~opts.zscore_file
    /\ opts.fdr # None /\ opts.fwer # None
    /\ opts.weight = "zscore" /\ opts.out_file
    /\ files_read = {}

\* C10: without fdr and fwer every emitted gene set has exactly
\* min(n_max, number of genes with a statistic for the trait) genes,
\* whatever n_min is.
C10_TopNMax ==
    (pcG \in {"compute", "done"} /\ opts.fdr = None /\ opts.fwer = None) =>
        \A e \in Emitted :
            Len(dict_gene_weights[e].GENESET)
               = Min(opts.n_max, Available(dict_gene_weights[e].TRAIT))

\* n_min above n_max, one set cut at n_max and one that takes every gene
C10_Witness ==
    /\ pcG = "done"
    /\ opts.fdr = None /\ opts.fwer = None
    /\ opts.n_min > opts.n_max
    /\ \E e, f \in Emitted :
          /\ Len(dict_gene_weights[e].GENESET) = opts.n_max
          /\ Available(dict_gene_weights[e].TRAIT) > opts.n_max
          /\ Len(dict_gene_weights[f].GENESET) = Available(dict_gene_weights[f].TRAIT)
          /\ Available(dict_gene_weights[f].TRAIT) < opts.n_max

\* the genes of the e-th emitted gene set, in the order emitted
GenesOf(e) ==
    [i \in 1..Len(dict_gene_weights[e].GENESET) |-> dict_gene_weights[e].GENESET[i][1]]

\* the genes with a statistic for the trait
AvailableGenes(trait) ==
    { df_pval.index[i] : i \in { j \in 1..Len(df_pval.data) :
          df_pval.data[j][ColOf(df_pval, trait)] # NaN } }

\* C11: the emitted genes are the genes with the smallest p-values among
\* the genes with a statistic (no gene left out has a strictly smaller
\* p-value than an emitted one), and are emitted in ascending p-value.
C11_SmallestAscending ==
    pcG \in {"compute", "done"} =>
        \A e \in Emitted :
            LET trait == dict_gene_weights[e].TRAIT
                gs == GenesOf(e)
                chosen == { gs[i] : i \in 1..Len(gs) }
            IN  /\ chosen \subseteq AvailableGenes(trait)
                /\ Cardinality(chosen) = Len(gs)
                /\ \A i \in 1..(Len(gs) - 1) :
                      PValueOf(gs[i], trait) <= PValueOf(gs[i + 1], trait)
                /\ \A g \in AvailableGenes(trait) \ chosen :
                      \A h \in chosen : PValueOf(g, trait) >= PValueOf(h, trait)

\* two genes emitted out of file order, and a gene with a larger p-value
\* left out
C11_Witness ==
    /\ pcG = "done"
    /\ \E e \in Emitted :
          LET trait == dict_gene_weights[e].TRAIT
              gs == GenesOf(e)
          IN  /\ Len(gs) = 2
              /\ PValueOf(gs[1], trait) < PValueOf(gs[2], trait)
              /\ \E i, j \in 1..Len(df_pval.index) :
                    /\ i < j
                    /\ df_pval.index[j] = gs[1]
                    /\ df_pval.index[i] = gs[2]
              /\ \E g \in AvailableGenes(trait) :
                    /\ g \notin { gs[i] : i \in 1..2 }
                    /\ PValueOf(g, trait) > PValueOf(gs[2], trait)

\* the p-values of the genes with a statistic for the trait, ascending
SortedPVals(trait) ==
    LET c == ColOf(df_pval, trait)
        q == CHOOSE x \in SortedOrders(df_pval, c, DropNa(df_pval, c, 1)) : TRUE
    IN  PValsOf(df_pval, c, q)

\* the number of genes that pass the selection for the trait (n_max when
\* there is no selection)
PassCount(trait) ==
    IF opts.fdr # None THEN BHCount(SortedPVals(trait), Val(opts.fdr))
    ELSE IF opts.fwer # None THEN BonfCount(SortedPVals(trait), Val(opts.fwer))
    ELSE opts.n_max

\* C23: the number of genes to select is min(max(count, n_min'), n_max),
\* count being the number of genes that pass the selection and
\* n_min' = min(n_min, n_max); it is within [n_min', n_max], also for
\* n_min > n_max.
C23_ClampFormula ==
    pcG \in {"compute", "done"} =>
        /\ n_min = Min(opts.n_min, opts.n_max)
        /\ \A e \in Emitted :
              /\ dict_gene_weights[e].n_gene =
                    Min(Max(PassCount(dict_gene_weights[e].TRAIT), n_min),
                        opts.n_max)
              /\ n_min <= dict_gene_weights[e].n_gene
              /\ dict_gene_weights[e].n_gene <= opts.n_max

\* n_min above n_max, and a selection that passes fewer genes than the
\* clamped n_min
C23_Witness ==
    /\ pcG = "done"
    /\ opts.n_min > opts.n_max
    /\ opts.fdr # None
    /\ \E e \in Emitted :
          /\ PassCount(dict_gene_weights[e].TRAIT) < n_min
          /\ dict_gene_weights[e].n_gene = n_min
          /\ Len(dict_gene_weights[e].GENESET) = n_min

\* the number of genes with a statistic for the trait whose p-value times
\* the family size m is at most k * alpha
AtMost(trait, m, k, alpha) ==
    Cardinality({ g \in AvailableGenes(trait) :
                     PNum(PValueOf(g, trait)) * m <= k * alpha })

\* the number of genes the selection passes when the family of the trait is
\* the genes with a statistic for it: Benjamini-Hochberg (the largest k with
\* k p-values <= k * alpha / m), Bonferroni (p <= alpha / m), or n_max
FamilyCount(trait) ==
    LET m == Available(trait)
    IN  IF opts.fdr # None
        THEN LET ok == { k \in 1..m : AtMost(trait, m, k, Val(opts.fdr)) >= k }
             IN  IF ok = {} THEN 0 ELSE CHOOSE k \in ok : \A j \in ok : j <= k
        ELSE IF opts.fwer # None THEN AtMost(trait, m, 1, Val(opts.fwer))
        ELSE opts.n_max

\* C24: missing statistics are handled per trait and before the selection: a
\* gene without a statistic for a trait is never in the gene set of the
\* trait and is not counted in its multiple-testing family, and every gene
\* with a statistic for the trait is eligible, whatever it lacks elsewhere.
C24_MissingPerTrait ==
    pcG \in {"compute", "done"} =>
        \A e \in Emitted :
            LET trait == dict_gene_weights[e].TRAIT
                gs == GenesOf(e)
            IN  /\ \A i \in 1..Len(gs) : gs[i] \in AvailableGenes(trait)
                /\ dict_gene_weights[e].n_gene =
                      Max(Min(FamilyCount(trait), opts.n_max), n_min)
                /\ Len(gs) = Min(dict_gene_weights[e].n_gene, Available(trait))

\* a gene without a statistic for one trait, left out of its set and out of
\* its family, and in the set of the other trait; a gene that lacks the
\* other trait is in the set of the first
C24_Witness ==
    /\ pcG = "done"
    /\ opts.fdr # None
    /\ Len(df_pval.index) = 3
    /\ \E e, f \in Emitted :
          /\ e # f
          /\ Available(dict_gene_weights[e].TRAIT) = 2
          /\ Available(dict_gene_weights[f].TRAIT) = 2
          /\ \E g \in { GenesOf(f)[i] : i \in 1..Len(GenesOf(f)) } :
                g \notin AvailableGenes(dict_gene_weights[e].TRAIT)
          /\ \E g \in { GenesOf(e)[i] : i \in 1..Len(GenesOf(e)) } :
                g \notin AvailableGenes(dict_gene_weights[f].TRAIT)
          /\ FamilyCount(dict_gene_weights[e].TRAIT) > 0

\* the TRAIT column of the rows built so far
TraitColumn == [e \in 1..Len(dict_gene_weights) |-> dict_gene_weights[e].TRAIT]

\* C18: the rows of the .gs table are the input trait columns in
\* lexicographic order of trait name, one row per column, whatever the
\* column order of the input table.
C18_TraitsSorted ==
    out_file # <<>> =>
        /\ out_file[1] = dict_gene_weights
        /\ Len(TraitColumn) = Len(df_read.columns)
        /\ { TraitColumn[e] : e \in 1..Len(TraitColumn) }
              = { df_read.columns[c] : c \in 1..Len(df_read.columns) }
        /\ \A e \in 1..(Len(TraitColumn) - 1) :
              /\ InOrder(TraitColumn[e], TraitColumn[e + 1])
              /\ TraitColumn[e] # TraitColumn[e + 1]

\* a table whose columns are not in order
C18_Witness ==
    /\ out_file # <<>>
    /\ df_read.columns = <<"HEIGHT", "BMI">>
    /\ TraitColumn = <<"BMI", "HEIGHT">>

\* the GENESET string of row e, split on ',' and each token on ':'
Parsed(e) ==
    LET toks == Split(dict_gene_weights[e].string, Chr(","))
    IN  [i \in 1..Len(toks) |-> Split(toks[i], Chr(":"))]

\* the round trip of row e: as many (gene, weight) pairs as genes selected,
\* in the same order, each weight the gene's weight at 5 significant digits
RoundTrip(e) ==
    LET gs == GenesOf(e)
        trait == dict_gene_weights[e].TRAIT
    IN  /\ Len(Parsed(e)) = Len(gs)
        /\ \A i \in 1..Len(gs) :
              /\ Len(Parsed(e)[i]) = 2
              /\ Parsed(e)[i][1] = Str(gs[i])
              /\ Parsed(e)[i][2] =
                    <<Wgt(Fmt5g(GeneWeight(opts.weight, PValueOf(gs[i], trait))))>>

\* a gene identifier without ',' and ':'
PlainName(g) == \A i \in 1..Len(g) : g[i] \notin {",", ":"}

\* C19: splitting an emitted GENESET string on ',' and each token on ':'
\* recovers as many (gene, weight) pairs as genes were selected, in the same
\* order, each weight the emitted weight at 5 significant digits.
C19_RoundTrip ==
    pcG \in {"compute", "done"} => \A e \in Emitted : RoundTrip(e)

\* the round trip of the gene sets of at least one gene whose identifiers
\* hold neither ',' nor ':'
PlainRoundTrip ==
    pcG \in {"compute", "done"} =>
        \A e \in Emitted :
            (/\ Len(GenesOf(e)) > 0
             /\ \A i \in 1..Len(GenesOf(e)) : PlainName(GenesOf(e)[i]))
            => RoundTrip(e)

(***************************************************************************)
(* compute_score (scdrs_.py, lines 25-267), and the subprocess call of     *)
(* stp6_scDRS.py around it (lines 184-237).                                *)
(***************************************************************************)
SpeciesNames == {"human", "hsapiens", "mmusculus", "dog"}

\* the arguments of a call
ScoreOptions ==
    [h5ad_species : SpeciesNames, gs_species : SpeciesNames,
     cov_file : BOOLEAN,
     ctrl_match_opt : {"mean", "mean_var", "var"},
     weight_opt : {"uniform", "vs", "inv_std", "od", "rank"},
     flag_return_ctrl_raw_score : BOOLEAN,
     flag_return_ctrl_norm_score : BOOLEAN]

\* scdrs.util.convert_species_name: the canonical name, the name itself
\* when it is not a known one
convert_species_name(sp) ==
    CASE sp \in {"human", "hsapiens"} -> "hsapiens"
      [] sp \in {"mouse", "mmusculus"} -> "mmusculus"
      [] OTHER -> sp

\* lines 116-118
ConvertSpecies(op) ==
    IF op.h5ad_species # op.gs_species
    THEN <<convert_species_name(op.h5ad_species),
           convert_species_name(op.gs_species)>>
    ELSE <<op.h5ad_species, op.gs_species>>

\* mutant: the species are checked even when the two names are equal
CheckOptions_AlwaysSpecies(op, sp) ==
    IF sp[1] \notin {"mmusculus", "hsapiens"}
    THEN <<"ValueError", "--h5ad-species">>
    ELSE IF sp[2] \notin {"mmusculus", "hsapiens"}
    THEN <<"ValueError", "--gs-species">>
    ELSE IF op.ctrl_match_opt \notin {"mean", "mean_var"}
    THEN <<"ValueError", "--ctrl-match-opt">>
    ELSE IF op.weight_opt \notin {"uniform", "vs", "inv_std", "od"}
    THEN <<"ValueError", "--weight-opt">>
    ELSE <<>>

\* lines 116-118 and 138-153: the exception the option checks raise, <<>>
\* if none.  An unknown name that differs from the other one is rejected by
\* convert_species_name or, at the latest, by line 140 or 145.
CheckOptions(op, sp) ==
    IF sp[1] # sp[2] /\ sp[1] \notin {"mmusculus", "hsapiens"}
    THEN <<"ValueError", "--h5ad-species">>
    ELSE IF sp[1] # sp[2] /\ sp[2] \notin {"mmusculus", "hsapiens"}
    THEN <<"ValueError", "--gs-species">>
    ELSE IF op.ctrl_match_opt \notin {"mean", "mean_var"}
    THEN <<"ValueError", "--ctrl-match-opt">>
    ELSE IF op.weight_opt \notin {"uniform", "vs", "inv_std", "od"}
    THEN <<"ValueError", "--weight-opt">>
    ELSE <<>>

\* the names of the gene sets of a .gs file, by row
TraitNames == <<"PSC", "UC", "BMI", "HEIGHT">>

\* the sizes of a gene set after load_gs
GeneCounts == {0, 9, 10}

\* scdrs.util.load_gs: the .gs files of at most n gene sets
GsFiles(n) ==
    UNION { { [i \in 1..m |-> [trait |-> TraitNames[i], n_gene |-> c[i]]] :
                c \in [1..m -> GeneCounts] } : m \in 0..n }

\* the trait stp6_scDRS.py is run for (line 94)
trait6 == TraitNames[1]

ScoreFile(trait) == <<trait, "score.gz">>
FullScoreFile(trait) == <<trait, "full_score.gz">>

\* stp6_scDRS.py, line 155: out_dir / f"{tissue}_cov.tsv"
cov_file == <<"Liver", "cov.tsv">>

\* stp6_scDRS.py, line 164: out_dir / f"{trait}_geneset.gs"
gs_file == <<trait6, "geneset.gs">>

\* what stp6_scDRS.py can find when it starts: the n_genes column of
\* adata.obs (line 147), compute_score.py (lines 80-83)
Env6 == [n_genes : BOOLEAN, script : BOOLEAN]

\* mutant: the gene-set file is not looked for
GsMissing_Never(dir) == FALSE

\* stp6_scDRS.py, line 165: not gs_file.exists()
GsMissing(dir) == gs_file \notin dir

InitScore ==
    /\ pcS = "start"
    /\ optsS \in ScoreOptions
    /\ species = <<>>
    /\ loaded = <<>>
    /\ dict_gs = <<>>
    /\ tj = 1
    /\ scored = <<>>
    /\ out_folder = {}
    /\ errS = <<>>
    /\ pc6 = "start"
    /\ err6 = ""
    /\ env6 \in Env6
    /\ out_dir \in SUBSET {gs_file}
    /\ log6 = <<>>
    /\ Idle7
    /\ IdleG
    /\ Idle5

\* stp6_scDRS.py, lines 140-157: the h5ad file is read and the covariate
\* file written; without the n_genes column line 148 raises
Stp6Cov ==
    /\ pc6 = "start"
    /\ IF env6.n_genes
       THEN /\ out_dir' = out_dir \cup {cov_file}
            /\ log6' = Append(log6, "cov")
            /\ pc6' = "find"
            /\ err6' = ""
       ELSE /\ pc6' = "crashed"
            /\ err6' = "ValueError"
            /\ UNCHANGED <<out_dir, log6>>
    /\ UNCHANGED <<pcS, optsS, species, loaded, dict_gs, tj, scored,
                   out_folder, errS, env6>>
    /\ UNCHANGED <<vars7, varsG, vars5>>

\* stp6_scDRS.py, lines 162-186: compute_score.py and the gene-set file are
\* looked for and the subprocess is started
Stp6Launch ==
    /\ pc6 = "find"
    /\ IF ~env6.script \/ GsMissing(out_dir)
       THEN /\ pc6' = "crashed"
            /\ err6' = "FileNotFoundError"
            /\ UNCHANGED log6
       ELSE /\ pc6' = "subprocess"
            /\ err6' = ""
            /\ log6' = Append(log6, "subprocess")
    /\ UNCHANGED <<pcS, optsS, species, loaded, dict_gs, tj, scored,
                   out_folder, errS, env6, out_dir>>
    /\ UNCHANGED <<vars7, varsG, vars5>>

\* lines 101-153: the options are copied, the species converted, the
\* options checked
ParseScoreOptions ==
    /\ pcS = "start"
    /\ pc6 = "subprocess"
    /\ species' = ConvertSpecies(optsS)
    /\ errS' = CheckOptions(optsS, ConvertSpecies(optsS))
    /\ pcS' = IF CheckOptions(optsS, ConvertSpecies(optsS)) = <<>>
              THEN "load" ELSE "failed"
    /\ UNCHANGED <<optsS, loaded, dict_gs, tj, scored, out_folder, pc6, err6,
                   env6, out_dir, log6>>
    /\ UNCHANGED <<vars7, varsG, vars5>>

\* lines 161-213: the h5ad file, the covariates and the .gs file are loaded
\* and the data preprocessed
LoadData ==
    /\ pcS = "load"
    /\ \E gs \in GsFiles(MaxTraits) : dict_gs' = gs
    /\ loaded' = IF optsS.cov_file THEN <<"h5ad", "cov", "gs">>
                 ELSE <<"h5ad", "gs">>
    /\ tj' = 1
    /\ pcS' = "score"
    /\ UNCHANGED <<optsS, species, scored, out_folder, errS, pc6, err6,
                   env6, out_dir, log6>>
    /\ UNCHANGED <<vars7, varsG, vars5>>

\* mutant: gene sets of fewer than 10 genes are scored too
TooSmall_Never(n) == FALSE

\* line 220: len(gene_list) < 10
TooSmall(n) == n < 10

\* lines 218-225: a gene set of fewer than 10 genes is skipped
SkipTrait ==
    /\ pcS = "score"
    /\ tj <= Len(dict_gs)
    /\ TooSmall(dict_gs[tj].n_gene)
    /\ tj' = tj + 1
    /\ UNCHANGED <<pcS, optsS, species, loaded, dict_gs, scored, out_folder,
                   errS, pc6, err6,
                   env6, out_dir, log6>>
    /\ UNCHANGED <<vars7, varsG, vars5>>

\* mutant: the full score file needs both flags
WantFull_Both(raw, norm) == raw /\ norm

\* line 245: FLAG_RETURN_CTRL_RAW_SCORE | FLAG_RETURN_CTRL_NORM_SCORE
WantFull(raw, norm) == raw \/ norm

\* lines 239-251: the files written for a scored trait
ScoreFiles(trait, op) ==
    { ScoreFile(trait) } \cup
    IF WantFull(op.flag_return_ctrl_raw_score, op.flag_return_ctrl_norm_score)
    THEN { FullScoreFile(trait) } ELSE {}

\* lines 218-266 for a gene set that score_cell scores
ScoreTrait ==
    /\ pcS = "score"
    /\ tj <= Len(dict_gs)
    /\ ~TooSmall(dict_gs[tj].n_gene)
    /\ scored' = Append(scored, dict_gs[tj].trait)
    /\ out_folder' = out_folder \cup ScoreFiles(dict_gs[tj].trait, optsS)
    /\ tj' = tj + 1
    /\ UNCHANGED <<pcS, optsS, species, loaded, dict_gs, errS, pc6, err6,
                   env6, out_dir, log6>>
    /\ UNCHANGED <<vars7, varsG, vars5>>

\* lines 218-237 for a gene set on which score_cell raises: nothing catches
\* the exception, compute_score ends
ScoreRaise ==
    /\ pcS = "score"
    /\ tj <= Len(dict_gs)
    /\ ~TooSmall(dict_gs[tj].n_gene)
    /\ scored' = Append(scored, dict_gs[tj].trait)
    /\ errS' = <<"score_cell", dict_gs[tj].trait>>
    /\ pcS' = "failed"
    /\ UNCHANGED <<optsS, species, loaded, dict_gs, tj, out_folder, pc6, err6,
                   env6, out_dir, log6>>
    /\ UNCHANGED <<vars7, varsG, vars5>>

\* line 267: the loop is over
ScoreReturn ==
    /\ pcS = "score"
    /\ tj > Len(dict_gs)
    /\ pcS' = "done"
    /\ UNCHANGED <<optsS, species, loaded, dict_gs, tj, scored, out_folder,
                   errS, pc6, err6,
                   env6, out_dir, log6>>
    /\ UNCHANGED <<vars7, varsG, vars5>>

\* stp6_scDRS.py, lines 186-237: subprocess.run(cmd, check=True) returns or
\* raises CalledProcessError; the downstream analysis runs when the full
\* score file of the trait exists
Stp6Return ==
    /\ pc6 = "subprocess"
    /\ pcS \in {"done", "failed"}
    /\ IF pcS = "failed"
       THEN /\ pc6' = "crashed"
            /\ err6' = "CalledProcessError"
            /\ UNCHANGED log6
       ELSE /\ pc6' = IF FullScoreFile(trait6) \in out_folder
                      THEN "downstream" ELSE "warned"
            /\ log6' = Append(log6, IF FullScoreFile(trait6) \in out_folder
                                    THEN "downstream" ELSE "warning")
            /\ err6' = ""
    /\ UNCHANGED <<pcS, optsS, species, loaded, dict_gs, tj, scored,
                   out_folder, errS, env6, out_dir>>
    /\ UNCHANGED <<vars7, varsG, vars5>>

NextScore ==
    \/ Stp6Cov
    \/ Stp6Launch
    \/ ParseScoreOptions
    \/ LoadData
    \/ SkipTrait
    \/ ScoreTrait
    \/ ScoreRaise
    \/ ScoreReturn
    \/ Stp6Return

SpecScore == InitScore /\ [][NextScore]_vars

(***************************************************************************)
(* Properties of compute_score.                                            *)
(***************************************************************************)
\* the gene sets compute_score is through with
Passed == IF pcS \in {"score", "done", "failed"} THEN 1..(tj - 1) ELSE {}

\* the gene sets score_cell has scored
ScoredOk == { i \in Passed : ~TooSmall(dict_gs[i].n_gene) }

ScoringFailed == errS # <<>> /\ errS[1] = "score_cell"

\* C15: when the scoring call fails for one trait the failure is confined
\* to that trait: the run goes on with the next trait and the orchestrator
\* does not end with the failure.
C15_FailureConfined ==
    ScoringFailed => (pcS = "score" /\ pc6 # "crashed")

\* C16: for every trait compute_score scores, <trait>.score.gz is written,
\* and <trait>.full_score.gz is written iff raw control scores or normalized
\* control scores were requested.
C16_ScoreFiles ==
    \A i \in ScoredOk :
        /\ ScoreFile(dict_gs[i].trait) \in out_folder
        /\ FullScoreFile(dict_gs[i].trait) \in out_folder
              <=> (optsS.flag_return_ctrl_raw_score
                      \/ optsS.flag_return_ctrl_norm_score)

\* two scored traits, the full score files written for the normalized
\* control scores alone
C16_Witness ==
    /\ pcS = "done"
    /\ ScoredOk = {1, 2}
    /\ ~optsS.flag_return_ctrl_raw_score
    /\ optsS.flag_return_ctrl_norm_score
    /\ out_folder = { ScoreFile(TraitNames[1]), FullScoreFile(TraitNames[1]),
                      ScoreFile(TraitNames[2]), FullScoreFile(TraitNames[2]) }

Unsupported(sp) == convert_species_name(sp) \notin {"mmusculus", "hsapiens"}

BadOption(op) ==
    \/ op.ctrl_match_opt \notin {"mean", "mean_var"}
    \/ op.weight_opt \notin {"uniform", "vs", "inv_std", "od"}

Rejected ==
    /\ pcS = "failed"
    /\ errS # <<>>
    /\ errS[1] = "ValueError"
    /\ loaded = <<>>
    /\ scored = <<>>
    /\ out_folder = {}

\* C17 (as stated): a control-matching option outside {mean, mean_var}, a
\* weighting option outside {uniform, vs, inv_std, od} or an unsupported
\* species name is rejected before any data is loaded or scored.
C17_Original ==
    (pcS \notin {"idle", "start"}
       /\ (BadOption(optsS) \/ Unsupported(optsS.h5ad_species)
              \/ Unsupported(optsS.gs_species)))
    => Rejected

\* C17: a bad control-matching or weighting option, or an unsupported
\* species name when the two species names differ, is rejected with a
\* ValueError before any data is loaded or scored; no other call is
\* rejected by the option checks.
C17_RejectsInvalid ==
    pcS \notin {"idle", "start"} =>
        (Rejected <=>
            \/ BadOption(optsS)
            \/ /\ optsS.h5ad_species # optsS.gs_species
               /\ (Unsupported(optsS.h5ad_species)
                      \/ Unsupported(optsS.gs_species)))

\* a call rejected for its species alone
C17_Witness ==
    /\ Rejected
    /\ ~BadOption(optsS)
    /\ optsS.h5ad_species = "dog"
    /\ optsS.gs_species = "hsapiens"

\* the traits handed to score_cell
ScoredTraits == { scored[i] : i \in 1..Len(scored) }

\* C28: compute_score skips every trait whose gene list has fewer than 10
\* genes: score_cell is not invoked and no score file is written for it,
\* and the loop goes on, so that a later trait of at least 10 genes is
\* handed to score_cell and, in a run that ends without an exception, has
\* its score file.
C28_SmallSkipped ==
    pcS \in {"score", "done", "failed"} =>
        /\ \A i \in 1..Len(dict_gs) :
              dict_gs[i].n_gene < 10 =>
                  /\ dict_gs[i].trait \notin ScoredTraits
                  /\ ScoreFile(dict_gs[i].trait) \notin out_folder
                  /\ FullScoreFile(dict_gs[i].trait) \notin out_folder
        /\ \A i \in Passed :
              dict_gs[i].n_gene >= 10 =>
                  /\ dict_gs[i].trait \in ScoredTraits
                  /\ ScoreFile(dict_gs[i].trait) \in out_folder
        /\ (pcS = "failed" /\ tj <= Len(dict_gs)) => dict_gs[tj].n_gene >= 10
        /\ pcS = "done" => Passed = 1..Len(dict_gs)

\* a skipped trait followed by a scored one
C28_Witness ==
    /\ pcS = "done"
    /\ Len(dict_gs) = 2
    /\ dict_gs[1].n_gene = 9
    /\ dict_gs[2].n_gene = 10
    /\ scored = <<dict_gs[2].trait>>
    /\ ScoreFile(dict_gs[2].trait) \in out_folder
    /\ ScoreFile(dict_gs[1].trait) \notin out_folder

\* the stages of stp6_scDRS.py in the order of the script
IsPrefix(x, y) == Len(x) <= Len(y) /\ x = SubSeq(y, 1, Len(x))

\* the stages stp6_scDRS.py has run
Stages6 == { log6[i] : i \in 1..Len(log6) }

\* compute_score has been started
Started == pcS # "start" \/ "subprocess" \in Stages6

\* C29: in stp6_scDRS.py the stages run in a fixed order with guards: the
\* scoring subprocess is started only after the covariate file has been
\* written and only if the gene-set file of the trait exists; the
\* downstream analysis runs only after the subprocess has ended without an
\* error and only if the full score file of the trait exists; without that
\* file there is a warning, no downstream analysis and no error.
C29_StagesGuarded ==
    pc6 # "idle" =>
        /\ \/ IsPrefix(log6, <<"cov", "subprocess", "downstream">>)
           \/ IsPrefix(log6, <<"cov", "subprocess", "warning">>)
        /\ Started =>
              /\ Len(log6) >= 2 /\ log6[1] = "cov" /\ log6[2] = "subprocess"
              /\ cov_file \in out_dir
              /\ gs_file \in out_dir
        /\ "downstream" \in Stages6 =>
              /\ pcS = "done"
              /\ errS = <<>>
              /\ FullScoreFile(trait6) \in out_folder
        /\ (pcS = "done" /\ pc6 # "subprocess"
              /\ FullScoreFile(trait6) \notin out_folder) =>
              /\ pc6 = "warned"
              /\ err6 = ""
              /\ log6 = <<"cov", "subprocess", "warning">>
        /\ pcS = "failed" => "downstream" \notin Stages6

\* the subprocess has ended without a full score file of the trait and
\* stp6_scDRS.py has ended with the warning
C29_Witness ==
    /\ pc6 = "warned"
    /\ pcS = "done"
    /\ log6 = <<"cov", "subprocess", "warning">>
    /\ FullScoreFile(trait6) \notin out_folder
    /\ scored # <<>>

\* the downstream analysis has run
C29_Downstream ==
    /\ pc6 = "downstream"
    /\ log6 = <<"cov", "subprocess", "downstream">>

\* stp6_scDRS.py has ended at line 166, no subprocess started
C29_NoGeneSet ==
    /\ pc6 = "crashed"
    /\ env6.script
    /\ gs_file \notin out_dir
    /\ log6 = <<"cov">>
    /\ pcS = "start"

(***************************************************************************)
(* stp5_generate_input_file_for_scDRS.py: the gene set of PSC is built     *)
(* from the MAGMA gene results.  A z-score or a weight is in units of      *)
(* 1e-5, the resolution of the five significant digits MAGMA prints below  *)
(* 1.                                                                      *)
(***************************************************************************)
\* the most rows of files_step2.genes.out
MaxList == 3

\* 1.0 in the units of a z-score
ZUnit == 10 ^ 5

\* line 105: the number of genes kept
top_n == 1000

\* the symbols mygene.info maps a gene to, "" for a gene it does not know
\* (line 114)
Symbols == {"", "ALB", "TP53"}

\* the z-scores of the file: -0.39126, 0.31415, 0.31416, 2.5, 12.3456
ZStats == {-39126, 31415, 31416, 250000, 1234560}

\* the files of at most n rows
GenesOut(n) ==
    UNION { [1..m -> [gene_symbol : Symbols, ZSTAT : ZStats]] : m \in 0..n }

\* a sequence without its j-th element
RemoveAt(rows, j) ==
    [q \in 1..(Len(rows) - 1) |-> IF q < j THEN rows[q] ELSE rows[q + 1]]

\* line 105: DataFrame.nlargest(n, "ZSTAT"), the n rows of the largest
\* ZSTAT in descending order, the first of equal ones first
RECURSIVE nlargest(_, _)
nlargest(n, rows) ==
    IF n = 0 \/ rows = <<>> THEN <<>>
    ELSE LET top == CHOOSE j \in 1..Len(rows) :
                      /\ \A q \in 1..Len(rows) : rows[q].ZSTAT <= rows[j].ZSTAT
                      /\ \A q \in 1..(j - 1) : rows[q].ZSTAT < rows[j].ZSTAT
         IN <<rows[top]>> \o nlargest(n - 1, RemoveAt(rows, top))

\* line 106: a ZSTAT above 10 is set to 10
CapZ(rows) ==
    [q \in 1..Len(rows) |->
        [rows[q] EXCEPT !.ZSTAT = IF @ > 10 * ZUnit THEN 10 * ZUnit ELSE @]]

\* line 134: the rows of a mapped symbol, in order
RECURSIVE Mapped(_)
Mapped(rows) ==
    IF rows = <<>> THEN <<>>
    ELSE IF Head(rows).gene_symbol # ""
    THEN <<Head(rows)>> \o Mapped(Tail(rows))
    ELSE Mapped(Tail(rows))

\* line 58: round(float(z), 4).  Halfway between two multiples of 1e-4 the
\* binary value of the float decides, either neighbour can come out.
Round4(z) ==
    LET lo == (z \div 10) * 10
    IN IF z % 10 < 5 THEN {lo}
       ELSE IF z % 10 > 5 THEN {lo + 10}
       ELSE {lo, lo + 10}

InitList ==
    /\ pc5 = "start"
    /\ magma_genes_out \in GenesOut(MaxList)
    /\ df_top = <<>>
    /\ df_genes = <<>>
    /\ i5 = 1
    /\ x_geneset = <<>>
    /\ err5 = ""
    /\ Idle7
    /\ IdleG
    /\ IdleS

\* lines 99-115: the file is read, the genes of the largest z-scores are
\* kept, the z-scores capped and the symbols attached
TopGenes ==
    /\ pc5 = "start"
    /\ df_top' = CapZ(nlargest(top_n, magma_genes_out))
    /\ pc5' = "keep"
    /\ UNCHANGED <<magma_genes_out, df_genes, i5, x_geneset, err5>>
    /\ UNCHANGED <<vars7, varsG, varsS>>

\* lines 133-139: the mapped genes are kept; without any the script ends
\* with ValueError, else list_maker is called
KeepMapped ==
    /\ pc5 = "keep"
    /\ df_genes' = Mapped(df_top)
    /\ IF Mapped(df_top) = <<>>
       THEN pc5' = "crashed" /\ err5' = "ValueError"
       ELSE pc5' = "list" /\ err5' = ""
    /\ i5' = 1
    /\ x_geneset' = <<>>
    /\ UNCHANGED <<magma_genes_out, df_top>>
    /\ UNCHANGED <<vars7, varsG, varsS>>

\* list_maker, lines 57-59: a row before the last one
ListRow ==
    /\ pc5 = "list"
    /\ i5 <= Len(df_genes) - 1
    /\ \E c \in Round4(df_genes[i5].ZSTAT) :
          x_geneset' = Append(x_geneset,
                              [gene |-> df_genes[i5].gene_symbol, weight |-> c])
    /\ i5' = i5 + 1
    /\ UNCHANGED <<pc5, magma_genes_out, df_top, df_genes, err5>>
    /\ UNCHANGED <<vars7, varsG, varsS>>

\* list_maker, lines 61-62, and lines 139-142: the last row, written as it
\* is, and the .gs file
ListLast ==
    /\ pc5 = "list"
    /\ i5 > Len(df_genes) - 1
    /\ x_geneset' = Append(x_geneset,
                           [gene |-> df_genes[Len(df_genes)].gene_symbol,
                            weight |-> df_genes[Len(df_genes)].ZSTAT])
    /\ pc5' = "done"
    /\ UNCHANGED <<magma_genes_out, df_top, df_genes, i5, err5>>
    /\ UNCHANGED <<vars7, varsG, varsS>>

NextList ==
    \/ TopGenes
    \/ KeepMapped
    \/ ListRow
    \/ ListLast

SpecList == InitList /\ [][NextList]_vars

(***************************************************************************)
(* Properties of list_maker.                                               *)
(***************************************************************************)
\* C30: list_maker gives one gene:weight token per row of its input, in
\* the order of the rows, and the weight of every token, the last one
\* too, is the z-score rounded to 4 decimal places and not above 10.
C30_AllRounded ==
    pc5 = "done" =>
        /\ Len(x_geneset) = Len(df_genes)
        /\ \A q \in 1..Len(x_geneset) :
              /\ x_geneset[q].gene = df_genes[q].gene_symbol
              /\ x_geneset[q].weight \in Round4(df_genes[q].ZSTAT)
              /\ x_geneset[q].weight <= 10 * ZUnit

\* what list_maker does: the tokens before the last one are rounded, the
\* last one is the z-score as it is
C30_AllButLast ==
    pc5 = "done" =>
        /\ Len(x_geneset) = Len(df_genes)
        /\ \A q \in 1..Len(x_geneset) :
              /\ x_geneset[q].gene = df_genes[q].gene_symbol
              /\ x_geneset[q].weight <= 10 * ZUnit
              /\ q < Len(x_geneset) =>
                    x_geneset[q].weight \in Round4(df_genes[q].ZSTAT)
              /\ q = Len(x_geneset) => x_geneset[q].weight = df_genes[q].ZSTAT

\* three tokens, the last of a z-score of five decimal places
C30_LastUnrounded ==
    /\ pc5 = "done"
    /\ Len(x_geneset) = 3
    /\ x_geneset[3].weight = 31416
    /\ x_geneset[3].weight \notin Round4(df_genes[3].ZSTAT)

====
